---- MODULE Spec2Model ----
(***************************************************************************)
(* Admin synchronisation and distributed locking of forms-entitlement-api. *)
(*                                                                         *)
(* Every process of Procs is one caller of syncAdminUsersFromGroup (a      *)
(* replica's cron tick, its startup hook or a route).  The callers share   *)
(* the 'sync-locks' collection (locks), the 'user-entitlement' collection  *)
(* (store) and the directory group.  A call runs                           *)
(*   withLock -> acquireLock -> syncAdminUsersInternal -> releaseLock      *)
(* and each step below is one awaited I/O operation of that chain together *)
(* with the synchronous code that follows it.                              *)
(***************************************************************************)
EXTENDS Integers, Sequences, FiniteSets, TLC

\* ------------------------------------------------------------------ bounds
MaxRuns == 2
MaxTicks == 1

MaxOps == 4
\* longest role list handed to mapScopesToRoles
MaxRoles == 3
\* calls of addUser, updateUser and deleteUser and reconciliation runs that
\* interleave with them
MaxApiCalls == 3
\* firings of the sync task
MaxFirings == 3
\* HTTP requests to the sync routes
MaxRequests == 2
\* runs of migrateUsersFromAzureGroup
MaxMigrations == 1
\* times session.withTransaction runs the callback of one migration
MaxAttempts == 2

\* ------------------------------------------------------- program constants
DUPLICATE_KEY_ERROR_CODE == 11000
MAX_RESULTS == 1000
lockTimeoutMinutes == 30
MsPerMinute == 60 * 1000

Procs == {"p1", "p2"}
Users == {"u1", "u2"}

\* a JavaScript value that is undefined (or an empty string): falsy
NoValue == ""

\* the clock advances by the length of a lease
TickMs == lockTimeoutMinutes * MsPerMinute

Roles == [Admin |-> "admin", FormCreator |-> "form-creator"]

Scopes ==
  << "form-delete", "form-edit", "form-read", "form-publish",
     "user-create", "user-delete", "user-edit" >>

RoleScopes(role) ==
  IF role = Roles.Admin THEN Scopes
  ELSE IF role = Roles.FormCreator THEN << "form-read", "form-edit" >>
  ELSE << >>

SeqToSet(s) == { s[i] : i \in 1..Len(s) }

Includes(s, x) == \E i \in 1..Len(s) : s[i] = x

\* Set.add on an insertion-ordered set: appends only what is not there yet
RECURSIVE AddAll(_, _)
AddAll(acc, scopes) ==
  IF scopes = << >> THEN acc
  ELSE AddAll(IF Includes(acc, Head(scopes)) THEN acc
              ELSE Append(acc, Head(scopes)),
              Tail(scopes))

RECURSIVE mapScopesToRolesFrom(_, _)
mapScopesToRolesFrom(scopeSet, roles) ==
  IF roles = << >> THEN scopeSet
  ELSE mapScopesToRolesFrom(AddAll(scopeSet, RoleScopes(Head(roles))),
                            Tail(roles))

mapScopesToRoles(roles) == mapScopesToRolesFrom(<< >>, roles)

\* ------------------------------------------------------------ directory
DirDisplayName(u) == IF u = "u1" THEN "User One" ELSE "User Two"

\* mail ?? userPrincipalName; the second user has neither
DirEmail(u) == IF u = "u1" THEN "u1@defra.gov.uk" ELSE NoValue

AzureUser(u) == [id |-> u, displayName |-> DirDisplayName(u), email |-> DirEmail(u)]

\* member lists the Graph API returns: no user twice
MemberLists ==
  { << >>, << AzureUser("u1") >>, << AzureUser("u2"), AzureUser("u1") >> }

\* ---------------------------------------------------------------- state
VARIABLES
  now,              \* the clock, in ms
  locks,            \* the sync-locks collection
  store,            \* committed documents of the user-entitlement collection
  directory,        \* current members of the role editor group
  pc,               \* position of each caller
  runNo,            \* number of calls of syncAdminUsersFromGroup made so far
  lockId,           \* randomUUID() of the current call
  acquired,         \* result of acquireLock in the current call
  releaseResult,    \* what releaseLock did in the current call
  fnOutcome,        \* how syncAdminUsersInternal settled
  wlOutcome,        \* how withLock settled
  session,          \* client session of the current call
  groupMembers,     \* result of getGroupMembers
  didGetAll,        \* getAll was called
  existingUsersMap, \* the pre-fetched records, indexed by userId
  idx,              \* index of the next member in the for-of loop
  calls,            \* create/update calls made inside the transaction
  txState,          \* "none", "open", "committed", "failed", "aborted"
  solo,             \* nobody else changed the store since this run began
  afterRun,         \* lastRun as it was when this run began
  lastRun           \* how the last run of the transaction ended

\* the SchedulerService singleton of a replica
VARIABLES
  tasks,            \* this.tasks: name -> task data, NoTask where not set
  trigger,          \* state of the cron task registered under each name
  leaked,           \* names with a running cron task that is not in this.tasks
  isInitialized,    \* this.isInitialized
  immediates,       \* names whose setImmediate callback is pending
  invocations,      \* runs of the setImmediate callback, by name
  opNo,             \* number of scheduler operations so far
  last              \* what the last scheduler operation did

\* calls of mapScopesToRoles
VARIABLES
  roleLists,        \* two role lists handed to mapScopesToRoles
  derived           \* what a variant of mapScopesToRoles returned for them

\* calls of the user API
VARIABLES
  apiNo,            \* number of addUser, updateUser and deleteUser calls
  lastApi           \* what the last of these calls did

\* the server of a replica
VARIABLES
  plugin,           \* what register of the scheduler plugin did
  request,          \* the HTTP request being handled
  migration         \* the run of migrateUsersFromAzureGroup

\* firings of the sync task
VARIABLES
  ticks             \* what each firing so far came to, in order

serverVars == << plugin, request, migration >>

schedVars ==
  << tasks, trigger, leaked, isInitialized, immediates, invocations, opNo,
     last >>
scopeVars == << roleLists, derived >>
apiVars == << apiNo, lastApi >>

lockVars == << locks, lockId, acquired, releaseResult, wlOutcome >>
syncVars == << fnOutcome, session, groupMembers, didGetAll, existingUsersMap,
               idx, calls, txState >>
histVars == << solo, afterRun, lastRun >>
vars == << now, store, directory, pc, runNo, lockVars, syncVars, histVars,
          schedVars, scopeVars, apiVars, serverVars, ticks >>

NoOutcome == [kind |-> "none", val |-> ""]

SchedNames == {"admin-user-sync", "cleanup"}
NoTask == [cronExpression |-> "", isRunning |-> FALSE, set |-> FALSE]
NoOp ==
  [op |-> "none", name |-> "", result |-> "none", threw |-> FALSE,
   invoked |-> 0, fn |-> NoOutcome, wrapped |-> NoOutcome,
   attempted |-> {}, failed |-> {}, unhandled |-> FALSE,
   cron |-> "", fault |-> "none", enabled |-> FALSE, immediately |-> FALSE]

\* new SchedulerService(): no task, not started
SchedulerService ==
  /\ tasks = [n \in SchedNames |-> NoTask]
  /\ trigger = [n \in SchedNames |-> "none"]
  /\ leaked = {}
  /\ isInitialized = FALSE
  /\ immediates = {}
  /\ invocations = [n \in SchedNames |-> 0]
  /\ opNo = 0
  /\ last = NoOp

\* no call of mapScopesToRoles yet
NoDerived == [variant |-> "none", a |-> << >>, b |-> << >>]
NoDerivation ==
  /\ roleLists = << << >>, << >> >>
  /\ derived = NoDerived

\* no call of the user API yet
NoApi ==
  [op |-> "none", userId |-> "", result |-> "none", before |-> {},
   trace |-> << >>]
NoApiCall ==
  /\ apiNo = 0
  /\ lastApi = NoApi

\* the plugin is not registered and no request has come in
NoPlugin ==
  [result |-> "none", scheduler |-> "unset", stopHandlers |-> 0,
   starts |-> 0, stops |-> 0, stopped |-> FALSE, enabled |-> FALSE]
NoRequest ==
  [route |-> "none", state |-> "none", status |-> 0, no |-> 0,
   outcome |-> [kind |-> "none", val |-> "none"]]
NoResults == [successful |-> << >>, failed |-> << >>, skipped |-> << >>]
NoMigration ==
  [pc |-> "idle", no |-> 0, roles |-> << >>, azureUsers |-> << >>, idx |-> 1,
   writes |-> {}, results |-> NoResults, attempts |-> 0,
   outcome |-> [kind |-> "none", val |-> "none"],
   summary |-> [total |-> 0, successful |-> 0, failed |-> 0, skipped |-> 0]]
NoServer ==
  /\ plugin = NoPlugin
  /\ request = NoRequest
  /\ migration = NoMigration

NoRun == [status |-> "none", writes |-> 0]
NoRelease == [outcome |-> NoOutcome, deleteFailed |-> FALSE]
Returned(v) == [kind |-> "return", val |-> v]
Threw(e) == [kind |-> "throw", val |-> e]

\* roles a stored record can carry; a record without a roles field is read
\* as [] by processAdminUser (roles ?? []), so both are the empty list here
StoredRoles ==
  { << >>, << "admin" >>, << "form-creator" >>, << "form-creator", "admin" >> }

Document(u, roles) ==
  [userId |-> u, roles |-> roles, scopes |-> mapScopesToRoles(roles),
   email |-> DirEmail(u), displayName |-> DirDisplayName(u)]

\* the collection when the service starts: records earlier calls of addUser,
\* updateUser or the sync have left
InitialStores ==
  { {} } \cup { { Document("u1", roles) } : roles \in StoredRoles }

ServiceInit ==
  /\ now = 0
  /\ locks = {}
  /\ store \in InitialStores
  /\ directory \in MemberLists
  /\ pc = [p \in Procs |-> "idle"]
  /\ runNo = [p \in Procs |-> 0]
  /\ lockId = [p \in Procs |-> << p, 0 >>]
  /\ acquired = [p \in Procs |-> FALSE]
  /\ releaseResult = [p \in Procs |-> NoRelease]
  /\ fnOutcome = [p \in Procs |-> NoOutcome]
  /\ wlOutcome = [p \in Procs |-> NoOutcome]
  /\ session = [p \in Procs |-> "none"]
  /\ groupMembers = [p \in Procs |-> << >>]
  /\ didGetAll = [p \in Procs |-> FALSE]
  /\ existingUsersMap = [p \in Procs |-> {}]
  /\ idx = [p \in Procs |-> 1]
  /\ calls = [p \in Procs |-> << >>]
  /\ txState = [p \in Procs |-> "none"]
  /\ solo = [p \in Procs |-> FALSE]
  /\ afterRun = [p \in Procs |-> NoRun]
  /\ lastRun = NoRun

Init ==
  /\ ServiceInit
  /\ SchedulerService
  /\ NoDerivation
  /\ NoApiCall
  /\ NoServer
  /\ ticks = << >>

\* ------------------------------------------------------- lock repository
\* insertOne on a collection with a unique index on lockName
\* an insert that a record past its expiresAt does not stop
insertOneUnlessExpired(coll, doc, fault) ==
  IF fault THEN [ok |-> FALSE, code |-> DUPLICATE_KEY_ERROR_CODE + 1]
  ELSE IF \E r \in coll : r.lockName = doc.lockName /\ r.expiresAt > now
       THEN [ok |-> FALSE, code |-> DUPLICATE_KEY_ERROR_CODE]
       ELSE [ok |-> TRUE, code |-> 0]

\* insertOne on a collection with a unique index on lockName; any other
\* failure carries another code, or none
insertOne(coll, doc, fault) ==
  IF fault THEN [ok |-> FALSE, code |-> DUPLICATE_KEY_ERROR_CODE + 1]
  ELSE IF \E r \in coll : r.lockName = doc.lockName
       THEN [ok |-> FALSE, code |-> DUPLICATE_KEY_ERROR_CODE]
       ELSE [ok |-> TRUE, code |-> 0]

\* an argument of a call: given, or left out
Given(v) == [given |-> TRUE, val |-> v]
Omitted == [given |-> FALSE, val |-> 0]

\* the default parameter timeoutMinutes = 30 of acquireLock and of withLock
timeoutMinutes(arg) == IF arg.given THEN arg.val ELSE 30

\* a lock record whose expiresAt adds the minutes as milliseconds
LockDocumentNoConversion(lockName, id, minutes) ==
  [lockName |-> lockName, lockId |-> id, createdAt |-> now,
   expiresAt |-> now + minutes]

LockDocument(lockName, id, minutes) ==
  [lockName |-> lockName, lockId |-> id, createdAt |-> now,
   expiresAt |-> now + minutes * MsPerMinute]

\* an acquireLock that takes every failed insert for a busy lock
acquireLockResultAllBusy(res) ==
  IF res.ok THEN "true" ELSE "false"

\* acquireLock's result for an insert result: "true", "false" or "throw"
acquireLockResult(res) ==
  IF res.ok THEN "true"
  ELSE IF res.code = DUPLICATE_KEY_ERROR_CODE THEN "false"
  ELSE "throw"

\* a delete whose filter names a field the lock records do not have
deleteOneFilterWrongField(coll, lockName, id) ==
  { r \in coll :
      "name" \in DOMAIN r /\ r.name = lockName /\ r.lockId = id }

\* a deleteOne({ lockName }) that does not look at the holder
deleteOneFilterByName(coll, lockName, id) ==
  { r \in coll : r.lockName = lockName }

\* deleteOne({ lockName, lockId })
deleteOneFilter(coll, lockName, id) ==
  { r \in coll : r.lockName = lockName /\ r.lockId = id }

\* a releaseLock without the catch: the delete's error escapes
releaseLockResultRethrows(fault, deletedCount) ==
  IF fault THEN Threw("ReleaseError")
  ELSE IF deletedCount > 0 THEN Returned("true") ELSE Returned("false")

\* releaseLock's result: the delete's error is caught and logged
releaseLockResult(fault, deletedCount) ==
  IF fault THEN Returned("false")
  ELSE IF deletedCount > 0 THEN Returned("true") ELSE Returned("false")

\* a withLock that goes on whatever acquireLock returned
withLockNeverSkips(acq) == FALSE

\* withLock: if (!acquired) return null
withLockSkips(acq) == acq = "false"

\* a withLock that releases after a normal return only
withLockAfterFnNoFinally(outcome) ==
  IF outcome.kind = "throw" THEN "settle" ELSE "release"

\* try { return await fn() } finally { await releaseLock() }
withLockAfterFn(outcome) == "release"

\* the completion of try/finally: a throw of the finally block replaces the
\* completion of the try block
FinallyCompletion(tryOutcome, finallyOutcome) ==
  IF finallyOutcome.kind = "throw" THEN finallyOutcome ELSE tryOutcome

LOCK_NAME == "admin-user-sync"

RECURSIVE SumRuns(_)
SumRuns(S) ==
  IF S = {} THEN 0
  ELSE LET p == CHOOSE q \in S : TRUE IN runNo[p] + SumRuns(S \ {p})

\* calls of syncAdminUsersFromGroup made so far, by all callers
TotalRuns == SumRuns(Procs)

\* the locals of a call start afresh
ResetRun(p) ==
  /\ releaseResult' = [releaseResult EXCEPT ![p] = NoRelease]
  /\ fnOutcome' = [fnOutcome EXCEPT ![p] = NoOutcome]
  /\ groupMembers' = [groupMembers EXCEPT ![p] = << >>]
  /\ didGetAll' = [didGetAll EXCEPT ![p] = FALSE]
  /\ existingUsersMap' = [existingUsersMap EXCEPT ![p] = {}]
  /\ idx' = [idx EXCEPT ![p] = 1]
  /\ calls' = [calls EXCEPT ![p] = << >>]
  /\ txState' = [txState EXCEPT ![p] = "none"]
  /\ solo' = [solo EXCEPT ![p] = FALSE]
  /\ afterRun' = [afterRun EXCEPT ![p] = NoRun]

\* acquireLock with lock id `id`: the insert reaches the store; withLock then
\* either returns null, rejects, or invokes fn, which starts its session
\* synchronously
acquireLock(p, id) ==
  \E fault \in BOOLEAN :
    LET doc == LockDocument(LOCK_NAME, id,
                 timeoutMinutes(Given(timeoutMinutes(Given(lockTimeoutMinutes)))))
        res == insertOne(locks, doc, fault)
        acq == acquireLockResult(res)
    IN  /\ locks' = IF res.ok THEN locks \cup {doc} ELSE locks
        /\ acquired' = [acquired EXCEPT ![p] = res.ok]
        /\ IF acq = "throw"
           THEN /\ wlOutcome' = [wlOutcome EXCEPT ![p] = Threw("InsertError")]
                /\ pc' = [pc EXCEPT ![p] = "done"]
                /\ session' = [session EXCEPT ![p] = "none"]
           ELSE IF withLockSkips(acq)
           THEN /\ wlOutcome' = [wlOutcome EXCEPT ![p] = Returned("null")]
                /\ pc' = [pc EXCEPT ![p] = "done"]
                /\ session' = [session EXCEPT ![p] = "none"]
           ELSE /\ wlOutcome' = [wlOutcome EXCEPT ![p] = NoOutcome]
                /\ pc' = [pc EXCEPT ![p] = "getGroupMembers"]
                /\ session' = [session EXCEPT ![p] = "open"]

\* a randomUUID that returns the same id again
randomUUIDReused(p, n) == << p, 0 >>

\* randomUUID() of the n-th call of caller p
randomUUID(p, n) == << p, n >>

\* what syncAdminUsersFromGroup hands to its caller for a result of withLock
syncAdminUsersFromGroupResult(wl) ==
  IF wl.kind = "throw" THEN wl ELSE Returned("undefined")

\* a caller enters syncAdminUsersFromGroup: a fresh lockId, then withLock up
\* to the result of acquireLock
syncAdminUsersFromGroupCall(p) ==
  /\ pc[p] \in {"idle", "done"}
  /\ runNo' = [runNo EXCEPT ![p] = @ + 1]
  /\ lockId' = [lockId EXCEPT ![p] = randomUUID(p, runNo[p] + 1)]
  /\ ResetRun(p)
  /\ acquireLock(p, randomUUID(p, runNo[p] + 1))
  /\ UNCHANGED << now, store, directory, lastRun >>
  /\ UNCHANGED << schedVars, scopeVars, apiVars >>

\* a call of syncAdminUsersFromGroup by any of its callers
syncAdminUsersFromGroup(p) ==
  /\ TotalRuns < MaxRuns
  /\ syncAdminUsersFromGroupCall(p)
  /\ UNCHANGED << serverVars, ticks >>

\* releaseLock in withLock's finally block; fn has settled and its locals
\* are gone
releaseLock(p) ==
  /\ pc[p] = "release"
  /\ \E fault \in BOOLEAN :
       LET hit == deleteOneFilter(locks, LOCK_NAME, lockId[p])
       IN  /\ locks' = IF fault THEN locks ELSE locks \ hit
           /\ releaseResult' = [releaseResult EXCEPT ![p] =
                [outcome |-> releaseLockResult(fault, Cardinality(hit)),
                 deleteFailed |-> fault]]
  /\ pc' = [pc EXCEPT ![p] = "settle"]
  /\ existingUsersMap' = [existingUsersMap EXCEPT ![p] = {}]
  /\ idx' = [idx EXCEPT ![p] = 1]
  /\ calls' = [calls EXCEPT ![p] = << >>]
  /\ solo' = [solo EXCEPT ![p] = FALSE]
  /\ afterRun' = [afterRun EXCEPT ![p] = NoRun]
  /\ UNCHANGED << now, store, directory, runNo, lockId, acquired, wlOutcome,
                  fnOutcome, session, groupMembers, didGetAll, txState,
                  lastRun >>
  /\ UNCHANGED << schedVars, scopeVars, apiVars, serverVars, ticks >>

\* withLock settles: its caller sees fn's result or an exception
withLock(p) ==
  /\ pc[p] = "settle"
  /\ wlOutcome' = [wlOutcome EXCEPT ![p] =
       FinallyCompletion(fnOutcome[p], releaseResult[p].outcome)]
  /\ pc' = [pc EXCEPT ![p] = "done"]
  /\ UNCHANGED << now, locks, store, directory, runNo, lockId, acquired,
                  releaseResult, syncVars, histVars >>
  /\ UNCHANGED << schedVars, scopeVars, apiVars, serverVars, ticks >>

\* time passes; the clock is only read against the expiresAt of a lock
\* record, so it is left alone while no record is waiting to expire
Tick ==
  /\ now < MaxTicks * TickMs
  /\ \E r \in locks : r.expiresAt > now
  /\ now' = now + TickMs
  /\ UNCHANGED << store, directory, pc, runNo, lockVars, syncVars, histVars >>
  /\ UNCHANGED << schedVars, scopeVars, apiVars, serverVars, ticks >>

\* a store without the expiry index: no record is ever swept
ExpireLockNever == FALSE /\ UNCHANGED vars

\* the TTL index on expiresAt (expireAfterSeconds: 0) removes an expired lock
ExpireLock ==
  /\ \E r \in locks :
       /\ r.expiresAt <= now
       /\ locks' = locks \ {r}
  /\ UNCHANGED << now, store, directory, pc, runNo, lockId, acquired,
                  releaseResult, wlOutcome, syncVars, histVars >>
  /\ UNCHANGED << schedVars, scopeVars, apiVars, serverVars, ticks >>

\* ------------------------------------------------------- user repository
\* find().sort({ updatedAt: -1 }).limit(MAX_RESULTS).toArray()
getAll(coll) ==
  IF Cardinality(coll) <= MAX_RESULTS THEN coll
  ELSE CHOOSE S \in SUBSET coll : Cardinality(S) = MAX_RESULTS

\* an insertOne on a collection without the unique index on userId
createNoIndex(coll, document, fault) ==
  IF fault THEN "error" ELSE "ok"

\* create: insertOne on a collection with a unique index on userId
create(coll, document, fault) ==
  IF fault THEN "error"
  ELSE IF \E r \in coll : r.userId = document.userId THEN "conflict"
  ELSE "ok"

\* a $set that merges the new scopes into the stored ones
SetFieldsMergingScopes(r, user) ==
  [r EXCEPT !.userId = user.userId, !.roles = user.roles,
            !.scopes = AddAll(@, user.scopes)]

\* the document after { $set: { userId, roles, scopes } }
SetFields(r, user) ==
  [r EXCEPT !.userId = user.userId, !.roles = user.roles,
            !.scopes = user.scopes]

\* update: updateOne, then 'not updated' unless modifiedCount is 1
update(coll, userId, user, fault) ==
  IF fault THEN "error"
  ELSE IF \E r \in coll : r.userId = userId /\ SetFields(r, user) # r THEN "ok"
  ELSE "badRequest"

\* an update whose filter leaves the userId out: every record is set
ApplyCallAllRecords(coll, c) ==
  IF c.op = "create" THEN coll \cup {c.doc}
  ELSE { SetFields(r, c.doc) : r \in coll }

\* one successful call applied to a collection
ApplyCall(coll, c) ==
  IF c.op = "create" THEN coll \cup {c.doc}
  ELSE { IF r.userId = c.userId THEN SetFields(r, c.doc) ELSE r : r \in coll }

RECURSIVE ApplyCalls(_, _)
ApplyCalls(coll, cs) ==
  IF cs = << >> THEN coll
  ELSE ApplyCalls(IF Head(cs).result = "ok" THEN ApplyCall(coll, Head(cs))
                  ELSE coll,
                  Tail(cs))

\* what the operations of p's open transaction see
TxView(p) == ApplyCalls(store, calls[p])

\* the transaction can commit: no insert of it breaks the unique index on
\* userId and every document it updated is still there
CanCommit(p) ==
  \A i \in 1..Len(calls[p]) :
    LET c == calls[p][i]
    IN  c.result = "ok" =>
          IF c.op = "create"
          THEN ~ \E r \in store : r.userId = c.userId
          ELSE \E r \in store : r.userId = c.userId

\* ------------------------------------------------------------ user service
\* a createUserInternal that leaves the email out
createUserInternalNoEmail(userId, roles, email, displayName) ==
  [userId |-> userId, roles |-> roles, scopes |-> mapScopesToRoles(roles),
   email |-> NoValue,
   displayName |-> IF displayName # NoValue THEN displayName ELSE NoValue]

createUserInternal(userId, roles, email, displayName) ==
  [userId |-> userId, roles |-> roles, scopes |-> mapScopesToRoles(roles),
   email |-> IF email # NoValue THEN email ELSE NoValue,
   displayName |-> IF displayName # NoValue THEN displayName ELSE NoValue]

\* only userId, roles and scopes are set by the update
updateUserInternal(userId, roles) ==
  [userId |-> userId, roles |-> roles, scopes |-> mapScopesToRoles(roles),
   email |-> NoValue, displayName |-> NoValue]

\* "add admin role if missing": only users without the admin role
NotAdminOnlyIfMissing(userRoles) == ~ Includes(userRoles, Roles.Admin)

\* every existing user is updated
NotAdminOnlyAlways(userRoles) == TRUE

\* userRoles.length !== 1 || !userRoles.includes(Roles.Admin)
NotAdminOnly(userRoles) ==
  Len(userRoles) # 1 \/ ~ Includes(userRoles, Roles.Admin)

\* the store call processAdminUser makes for a member, if any
processAdminUserCall(member, existingUsers) ==
  IF \E r \in existingUsers : r.userId = member.id
  THEN LET existingUser == CHOOSE r \in existingUsers : r.userId = member.id
       IN  IF NotAdminOnly(existingUser.roles)
           THEN [op |-> "update", userId |-> member.id,
                 doc |-> updateUserInternal(member.id, << Roles.Admin >>)]
           ELSE [op |-> "none", userId |-> member.id,
                 doc |-> updateUserInternal(member.id, << >>)]
  ELSE [op |-> "create", userId |-> member.id,
        doc |-> createUserInternal(member.id, << Roles.Admin >>,
                                   member.email, member.displayName)]

\* a sync without the empty-group return
syncNeverSkips(members) == FALSE

\* if (groupMembers.length === 0) return
syncSkips(members) == Len(members) = 0

\* a loop without the try/catch: the member's error leaves the callback
memberLoopNextNoCatch(i, n, threw) ==
  [abort |-> threw, idx |-> i + 1,
   pc |-> IF i + 1 > n THEN "commit" ELSE "processAdminUser"]

\* the for-of loop after member i of n: the catch logs the error and the
\* loop goes on
memberLoopNext(i, n, threw) ==
  [abort |-> FALSE, idx |-> i + 1,
   pc |-> IF i + 1 > n THEN "commit" ELSE "processAdminUser"]

\* a catch block that logs the error and does not throw it again
rethrowSwallowed(err) == Returned("undefined")

\* catch (err) { logger.error(...); throw err }
rethrow(err) == Threw(err)

\* a write that is made without the { session } option
inTransactionNoSession(op) == FALSE

\* insertOne / updateOne are given { session }: the write belongs to the
\* transaction of the session
inTransaction(op) == TRUE

\* syncAdminUsersInternal settles; its finally block ends the session
SettleFn(p, outcome) ==
  /\ fnOutcome' = [fnOutcome EXCEPT ![p] = outcome]
  /\ session' = [session EXCEPT ![p] = "ended"]
  /\ pc' = [pc EXCEPT ![p] = withLockAfterFn(outcome)]

\* syncAdminUsersInternal up to the result of getGroupMembers
getGroupMembers(p) ==
  /\ pc[p] = "getGroupMembers"
  /\ solo' = [solo EXCEPT ![p] = TRUE]
  /\ afterRun' = [afterRun EXCEPT ![p] = lastRun]
  /\ \E fault \in BOOLEAN :
       IF fault
       THEN /\ SettleFn(p, rethrow("DirectoryError"))
            /\ UNCHANGED groupMembers
       ELSE /\ groupMembers' = [groupMembers EXCEPT ![p] = directory]
            /\ IF syncSkips(directory)
               THEN SettleFn(p, Returned("undefined"))
               ELSE /\ pc' = [pc EXCEPT ![p] = "getAll"]
                    /\ UNCHANGED << fnOutcome, session >>
  /\ UNCHANGED << now, store, directory, runNo, lockVars, didGetAll,
                  existingUsersMap, idx, calls, txState, lastRun >>
  /\ UNCHANGED << schedVars, scopeVars, apiVars, serverVars, ticks >>

\* processAllAdminUsers up to the start of the transaction
processAllAdminUsers(p) ==
  /\ pc[p] = "getAll"
  /\ didGetAll' = [didGetAll EXCEPT ![p] = TRUE]
  /\ \E fault \in BOOLEAN :
       IF fault
       THEN /\ SettleFn(p, rethrow("StoreError"))
            /\ UNCHANGED << existingUsersMap, txState >>
       ELSE /\ existingUsersMap' = [existingUsersMap EXCEPT ![p] =
                 { user \in getAll(store) : user.userId # NoValue }]
            /\ txState' = [txState EXCEPT ![p] = "open"]
            /\ pc' = [pc EXCEPT ![p] =
                 IF Len(groupMembers[p]) = 0 THEN "commit"
                 ELSE "processAdminUser"]
            /\ UNCHANGED << fnOutcome, session >>
  /\ UNCHANGED << now, store, directory, runNo, lockVars, groupMembers, idx,
                  calls, histVars >>
  /\ UNCHANGED << schedVars, scopeVars, apiVars, serverVars, ticks >>

\* one iteration of the loop inside the transaction
processAdminUser(p) ==
  /\ pc[p] = "processAdminUser"
  /\ idx[p] <= Len(groupMembers[p])
  /\ LET member == groupMembers[p][idx[p]]
         call == processAdminUserCall(member, existingUsersMap[p])
     IN  \E fault \in (IF call.op = "none" THEN {FALSE} ELSE BOOLEAN) :
           LET result ==
                 IF call.op = "create" THEN create(TxView(p), call.doc, fault)
                 ELSE IF call.op = "update"
                 THEN update(TxView(p), call.userId, call.doc, fault)
                 ELSE "ok"
               next == memberLoopNext(idx[p], Len(groupMembers[p]),
                                      result # "ok")
           IN  /\ calls' = [calls EXCEPT ![p] =
                    IF call.op = "none" THEN @
                    ELSE Append(@, [op |-> call.op, userId |-> call.userId,
                                    doc |-> call.doc, result |-> result,
                                    member |-> idx[p]])]
               /\ store' = IF result = "ok" /\ call.op # "none"
                              /\ ~ inTransaction(call.op)
                           THEN ApplyCall(store, call)
                           ELSE store
               /\ idx' = [idx EXCEPT ![p] = next.idx]
               /\ IF next.abort
                  THEN /\ txState' = [txState EXCEPT ![p] = "aborted"]
                       /\ SettleFn(p, rethrow("MemberError"))
                  ELSE /\ pc' = [pc EXCEPT ![p] = next.pc]
                       /\ UNCHANGED << txState, fnOutcome, session >>
  /\ UNCHANGED << now, directory, runNo, lockVars, groupMembers,
                  didGetAll, existingUsersMap, histVars >>
  /\ UNCHANGED << schedVars, scopeVars, apiVars, serverVars, ticks >>

FailedCalls(p) ==
  { i \in 1..Len(calls[p]) : calls[p][i].result # "ok" }

\* the end of session.withTransaction: commit, or failure of the transaction
withTransaction(p) ==
  /\ pc[p] = "commit"
  /\ \E fault \in BOOLEAN :
       LET committed == ~ fault /\ CanCommit(p)
           clean == committed /\ FailedCalls(p) = {} /\ solo[p]
       IN  /\ store' = IF committed THEN ApplyCalls(store, calls[p]) ELSE store
           /\ txState' = [txState EXCEPT ![p] =
                IF committed THEN "committed" ELSE "failed"]
           /\ SettleFn(p, IF committed THEN Returned("undefined")
                          ELSE rethrow("TransactionError"))
           /\ solo' = [q \in Procs |->
                IF q # p /\ store' # store THEN FALSE ELSE solo[q]]
           /\ lastRun' =
                [status |-> IF clean THEN "clean"
                            ELSE IF committed THEN "partial" ELSE "failed",
                 writes |-> IF committed THEN Len(calls[p]) - Cardinality(FailedCalls(p))
                            ELSE 0]
  /\ UNCHANGED << now, directory, runNo, lockVars, groupMembers, didGetAll,
                  existingUsersMap, idx, calls, afterRun >>
  /\ UNCHANGED << schedVars, scopeVars, apiVars, serverVars, ticks >>

\* ------------------------------------------------------------ specification
Next ==
  \/ \E p \in Procs : syncAdminUsersFromGroup(p)
  \/ \E p \in Procs : getGroupMembers(p)
  \/ \E p \in Procs : processAllAdminUsers(p)
  \/ \E p \in Procs : processAdminUser(p)
  \/ \E p \in Procs : withTransaction(p)
  \/ \E p \in Procs : releaseLock(p)
  \/ \E p \in Procs : withLock(p)
  \/ Tick
  \/ ExpireLock

Spec == Init /\ [][Next]_vars

\* ------------------------------------------------------------------ claims
\* fn has been invoked under withLock and has not settled
InAction(p) ==
  pc[p] \in {"getGroupMembers", "getAll", "processAdminUser", "commit"}

AdminScopeSet ==
  { "form-delete", "form-edit", "form-read", "form-publish",
    "user-create", "user-delete", "user-edit" }

\* members the loop of p has dealt with
Processed(p) ==
  IF pc[p] \in {"processAdminUser", "commit", "release"}
  THEN 1..(idx[p] - 1) ELSE {}

Snapshot(p, id) == { r \in existingUsersMap[p] : r.userId = id }

CallsFor(p, i) ==
  { calls[p][k] : k \in { j \in 1..Len(calls[p]) : calls[p][j].member = i } }

IsAdminRecord(r) ==
  r.roles = << "admin" >> /\ SeqToSet(r.scopes) = AdminScopeSet
  /\ Len(r.scopes) = Cardinality(AdminScopeSet)

\* C1: for all concurrent invocations of withLock with the same lockName, at
\* most one invocation's action is executing at any instant, in every
\* interleaving of insert, action, delete and expiry of lock records.
C1_MutualExclusion ==
  \A p, q \in Procs : (InAction(p) /\ InAction(q)) => p = q

C3_LockBusy ==
  [][\A p \in Procs :
       (/\ runNo'[p] # runNo[p]
        /\ \E r \in locks : r.lockName = LOCK_NAME
        /\ wlOutcome'[p].kind # "throw")
         => /\ wlOutcome'[p] = Returned("null")
            /\ pc'[p] = "done"
            /\ session'[p] = "none"
            /\ fnOutcome'[p] = NoOutcome
            /\ releaseResult'[p] = NoRelease
            /\ locks' = locks]_vars

C3_ReturnedNull ==
  \E p \in Procs :
    /\ pc[p] = "done" /\ wlOutcome[p] = Returned("null")
    /\ session[p] = "none"
    /\ \E r \in locks : r.lockName = LOCK_NAME /\ r.lockId # lockId[p]

\* C4: when the action throws, the same exception reaches the caller of
\* withLock, and releaseLock has run before it does.
C4_ReleaseBeforeRethrow ==
  \A p \in Procs :
    fnOutcome[p].kind = "throw" =>
      /\ (releaseResult[p] = NoRelease => wlOutcome[p] = NoOutcome)
      /\ (pc[p] = "done" =>
            (wlOutcome[p] = fnOutcome[p] /\ releaseResult[p] # NoRelease))

C4_Rethrown ==
  \E p \in Procs :
    /\ pc[p] = "done" /\ acquired[p]
    /\ fnOutcome[p] = Threw("TransactionError")
    /\ wlOutcome[p] = fnOutcome[p]
    /\ releaseResult[p].outcome = Returned("true")

\* C5: when deleting the lock record fails, withLock still returns the
\* action's result or rethrows the action's exception; the failure of the
\* release is not thrown.
C5_ReleaseFailureNotMasking ==
  \A p \in Procs :
    (pc[p] = "done" /\ releaseResult[p].deleteFailed) =>
      /\ wlOutcome[p] = fnOutcome[p]
      /\ releaseResult[p].outcome.kind = "return"

C5_BothOutcomes ==
  \E p, q \in Procs :
    /\ pc[p] = "done" /\ releaseResult[p].deleteFailed
    /\ pc[q] = "done" /\ releaseResult[q].deleteFailed
    /\ wlOutcome[p].kind = "throw" /\ wlOutcome[q] = Returned("undefined")

C7_CreatesAdmin ==
  \A p \in Procs : \A i \in Processed(p) :
    LET member == groupMembers[p][i]
    IN  Snapshot(p, member.id) = {} =>
          /\ Cardinality(CallsFor(p, i)) = 1
          /\ \A c \in CallsFor(p, i) :
               /\ c.op = "create" /\ c.userId = member.id
               /\ c.doc.userId = member.id
               /\ IsAdminRecord(c.doc)
               /\ c.doc.email = member.email
               /\ c.doc.displayName = member.displayName
               /\ (c.result = "ok" /\ txState[p] = "committed" /\ solo[p]) =>
                     c.doc \in store

C7_Created ==
  \E p \in Procs : \E i \in Processed(p) :
    /\ pc[p] = "release" /\ txState[p] = "committed"
    /\ groupMembers[p][i].id = "u1"
    /\ Snapshot(p, "u1") = {}
    /\ \E r \in store : r.userId = "u1" /\ r.email = "u1@defra.gov.uk"

C9_PartialFailureIsolation ==
  \A p \in Procs :
    /\ (pc[p] = "release" /\ FailedCalls(p) # {} /\ txState[p] # "failed") =>
         /\ fnOutcome[p] = Returned("undefined")
         /\ txState[p] = "committed"
         /\ idx[p] = Len(groupMembers[p]) + 1
         /\ \A i \in 1..Len(groupMembers[p]) :
              processAdminUserCall(groupMembers[p][i],
                                   existingUsersMap[p]).op # "none"
                => CallsFor(p, i) # {}
    /\ (pc[p] = "done" /\ txState[p] = "committed") =>
         wlOutcome[p] = Returned("undefined")

C9_LaterMemberProcessed ==
  \E p \in Procs :
    /\ pc[p] = "release" /\ txState[p] = "committed"
    /\ Len(calls[p]) = 2
    /\ calls[p][1].result # "ok" /\ calls[p][2].result = "ok"
    /\ calls[p][2].doc \in store

\* C10: when the directory returns no members, the sync opens no
\* transaction, reads and writes no entitlement record, returns normally,
\* ends its session, and releaseLock runs for the lock of the run.
C10_EmptyGroup ==
  \A p \in Procs :
    (/\ acquired[p] /\ session[p] # "none"
     /\ pc[p] # "getGroupMembers"
     /\ groupMembers[p] = << >>
     /\ fnOutcome[p] # Threw("DirectoryError")) =>
      /\ fnOutcome[p] = Returned("undefined")
      /\ txState[p] = "none"
      /\ ~ didGetAll[p]
      /\ calls[p] = << >>
      /\ session[p] = "ended"
      /\ pc[p] \in {"release", "settle", "done"}
      /\ (pc[p] \in {"settle", "done"} =>
            /\ releaseResult[p] # NoRelease
            /\ (~ releaseResult[p].deleteFailed =>
                  ~ \E r \in locks : r.lockId = lockId[p]))
      /\ (pc[p] = "done" => wlOutcome[p] = Returned("undefined"))

C10_EmptyRun ==
  \E p \in Procs :
    /\ pc[p] = "done" /\ acquired[p]
    /\ directory = << >> /\ groupMembers[p] = << >>
    /\ session[p] = "ended" /\ txState[p] = "none"
    /\ releaseResult[p].outcome = Returned("true")
    /\ wlOutcome[p] = Returned("undefined")

\* the directory fetch of p's run failed: the run is over without a member
\* list although the group has members
FetchFailed(p) ==
  /\ pc[p] \in {"release", "settle", "done"} /\ session[p] = "ended"
  /\ groupMembers[p] = << >> /\ directory # << >>

\* the bulk read of p's run failed
ReadFailed(p) ==
  /\ pc[p] \in {"release", "settle", "done"}
  /\ didGetAll[p] /\ txState[p] = "none"

\* the records a reader outside the transaction sees
Visible == { r \in store : r.userId # NoValue }

\* C11: when the directory fetch, the bulk read or the transaction fails,
\* syncAdminUsersInternal rejects with that error, its session is ended, and
\* withLock runs releaseLock before it rejects with the same error.
C11_SystemicFailure ==
  \A p \in Procs :
    (acquired[p] /\ pc[p] \in {"release", "settle", "done"}
       /\ (FetchFailed(p) \/ ReadFailed(p) \/ txState[p] = "failed")) =>
      /\ fnOutcome[p] =
           Threw(IF txState[p] = "failed" THEN "TransactionError"
                 ELSE IF ReadFailed(p) THEN "StoreError"
                 ELSE "DirectoryError")
      /\ session[p] = "ended"
      /\ (releaseResult[p] = NoRelease => wlOutcome[p] = NoOutcome)
      /\ (pc[p] = "done" =>
            /\ wlOutcome[p] = fnOutcome[p]
            /\ releaseResult[p] # NoRelease
            /\ (~ releaseResult[p].deleteFailed =>
                  ~ \E r \in locks : r.lockId = lockId[p]))

C11_DirectoryFailure ==
  \E p \in Procs :
    /\ pc[p] = "done" /\ acquired[p] /\ FetchFailed(p)
    /\ wlOutcome[p] = Threw("DirectoryError")
    /\ releaseResult[p].outcome = Returned("true")
    /\ locks = {}

\* C12: while the transaction of a run is open, or after it has failed, a
\* reader sees none of the run's writes; after the commit it sees every
\* successful write of the run (no other writer having changed the store
\* since the run began).
C12_AtomicVisibility ==
  \A p \in Procs :
    (solo[p] /\ pc[p] \in {"processAdminUser", "commit", "release"}) =>
      /\ (txState[p] \in {"open", "failed"} =>
            Visible = existingUsersMap[p])
      /\ (txState[p] = "committed" =>
            Visible = ApplyCalls(existingUsersMap[p], calls[p]))

C12_NoneThenAll ==
  \E p \in Procs :
    /\ solo[p] /\ pc[p] = "release" /\ txState[p] = "committed"
    /\ Len(calls[p]) = 2
    /\ \A k \in 1..2 : calls[p][k].result = "ok"
    /\ Visible # existingUsersMap[p]
    /\ Visible = ApplyCalls(existingUsersMap[p], calls[p])

\* -------------------------------------------------------------- scheduler
\* everything outside the scheduler
serviceVars ==
  << now, store, directory, pc, runNo, lockVars, syncVars, histVars >>

CronExpressions == {"0 */6 * * *", "every now and then"}

\* cron.validate
validate(cronExpression) == cronExpression = "0 */6 * * *"

\* how a call of the caller's task function can end: it resolves, rejects
\* with an Error, or rejects with a value that is not an Error
TaskOutcomes ==
  { Returned("undefined"), Threw("Error"), Threw("String error") }

\* a wrapper without the try/catch
executeScheduledTaskNoCatch(outcome) == outcome

\* executeScheduledTask: await taskFunction() inside try/catch; the catch logs
executeScheduledTask(outcome) ==
  IF outcome.kind = "throw" THEN Returned("undefined") ELSE Returned("undefined")

\* a registry that keeps the caller's function itself
registeredFunctionRaw(outcome) == outcome

\* tasks.set(name, { ..., taskFunction: executeScheduledTask })
registeredFunction(outcome) == executeScheduledTask(outcome)

\* a scheduleTask that runs every new task at once
setImmediateCalledAlways(runImmediately) == TRUE

\* scheduleTask: if (runImmediately) setImmediate(...)
setImmediateCalled(runImmediately) == runImmediately

\* a scheduleTask without the check of the name
nameTakenNever(reg, name) == FALSE

\* this.tasks.has(name)
nameTaken(reg, name) == reg[name].set

\* a start without the isInitialized guard
startSkipsNever(initialized) == FALSE

\* start: if (this.isInitialized) return
startSkips(initialized) == initialized

\* a stop without the isInitialized guard
stopSkipsNever(initialized) == FALSE

\* stop: if (!this.isInitialized) return
stopSkips(initialized) == ~ initialized

\* a triggerTask that uses the task data without looking at it
triggerTaskResultNoLookup(found, wrapped) ==
  IF ~ found THEN Threw("TypeError")
  ELSE IF wrapped.kind = "throw" THEN Returned("false") ELSE Returned("true")

\* triggerTask: false for an unknown name; else await taskFunction() in
\* try/catch
triggerTaskResult(found, wrapped) ==
  IF ~ found THEN Returned("false")
  ELSE IF wrapped.kind = "throw" THEN Returned("false") ELSE Returned("true")

Registered == { n \in SchedNames : tasks[n].set }

OpRecord(op, name, result) ==
  [NoOp EXCEPT !.op = op, !.name = name, !.result = result]

\* the return value of scheduleTask; fault says which call on node-cron
\* throws: cron.schedule or task.stop
scheduleTaskResult(name, cronExpression, runImmediately, fault) ==
  /\ ~ nameTaken(tasks, name)
  /\ validate(cronExpression)
  /\ fault = "none"

\* this.tasks.set(name, { task, cronExpression, taskFunction, isRunning })
setTask(reg, name, cronExpression) ==
  [reg EXCEPT ![name] =
     [cronExpression |-> cronExpression, isRunning |-> FALSE, set |-> TRUE]]

\* taskData.isRunning = running, for the tasks whose start or stop went
\* through
setRunning(reg, done, running) ==
  [n \in SchedNames |->
     IF n \in done THEN [reg[n] EXCEPT !.isRunning = running] ELSE reg[n]]

\* task.start() or task.stop() on the cron tasks of these names
setTrigger(trg, done, to) ==
  [n \in SchedNames |-> IF n \in done THEN to ELSE trg[n]]

\* what scheduleTask does to the service
Scheduled(name, cronExpression, runImmediately, fault) ==
  LET checked == ~ nameTaken(tasks, name) /\ validate(cronExpression)
      created == checked /\ fault # "schedule"
      ok == scheduleTaskResult(name, cronExpression, runImmediately, fault)
  IN  /\ tasks' = IF ok THEN setTask(tasks, name, cronExpression) ELSE tasks
      /\ trigger' = IF ok THEN setTrigger(trigger, {name}, "stopped")
                    ELSE trigger
      /\ leaked' = IF created /\ ~ ok THEN leaked \cup {name} ELSE leaked
      /\ immediates' = IF ok /\ setImmediateCalled(runImmediately)
                       THEN immediates \cup {name}
                       ELSE immediates

\* scheduleTask(name, cronExpression, taskFunction, runImmediately)
scheduleTask(name, cronExpression, runImmediately, fault) ==
  /\ opNo < MaxOps
  /\ opNo' = opNo + 1
  /\ LET ok == scheduleTaskResult(name, cronExpression, runImmediately, fault)
     IN  /\ Scheduled(name, cronExpression, runImmediately, fault)
         /\ last' = [OpRecord("scheduleTask", name,
                              IF ok THEN "true" ELSE "false")
                       EXCEPT !.cron = cronExpression, !.fault = fault,
                              !.immediately = runImmediately]
  /\ UNCHANGED << isInitialized, invocations >>
  /\ UNCHANGED << serviceVars, scopeVars, apiVars, serverVars, ticks >>

\* an initialiseAdminUserSync that ignores the result of scheduleTask
initialiseResultUnchecked(syncEnabled, success) ==
  IF ~ syncEnabled THEN Returned("null") ELSE Returned("scheduler")

\* initialiseAdminUserSync: null when disabled, throws when scheduleTask
\* returned false, else the scheduler
initialiseResult(syncEnabled, success) ==
  IF ~ syncEnabled THEN Returned("null")
  ELSE IF ~ success
  THEN Threw("Failed to initialize admin user sync scheduler")
  ELSE Returned("scheduler")

\* initialiseAdminUserSync(syncFunction) under the configuration
\* sync.adminUsers.enabled, sync.adminUsers.cronSchedule
initialiseAdminUserSync(syncEnabled, cronSchedule, fault) ==
  /\ opNo < MaxOps
  /\ opNo' = opNo + 1
  /\ LET success == scheduleTaskResult(LOCK_NAME, cronSchedule, TRUE, fault)
         res == initialiseResult(syncEnabled, success)
     IN  /\ IF syncEnabled
            THEN Scheduled(LOCK_NAME, cronSchedule, TRUE, fault)
            ELSE UNCHANGED << tasks, trigger, leaked, immediates >>
         /\ last' = [OpRecord("initialiseAdminUserSync", LOCK_NAME,
                              IF res.kind = "throw" THEN "none" ELSE res.val)
                       EXCEPT !.threw = (res.kind = "throw"),
                              !.cron = cronSchedule, !.fault = fault,
                              !.enabled = syncEnabled]
  /\ UNCHANGED << isInitialized, invocations >>
  /\ UNCHANGED << serviceVars, scopeVars, apiVars, serverVars, ticks >>

\* start(); faults are the tasks whose task.start() throws
start(faults) ==
  /\ opNo < MaxOps
  /\ opNo' = opNo + 1
  /\ IF startSkips(isInitialized)
     THEN /\ last' = OpRecord("start", "", "undefined")
          /\ UNCHANGED << tasks, trigger, isInitialized >>
     ELSE LET failed == faults \cap Registered
              done == Registered \ failed
          IN  /\ trigger' = setTrigger(trigger, done, "started")
              /\ tasks' = setRunning(tasks, done, TRUE)
              /\ isInitialized' = TRUE
              /\ last' = [OpRecord("start", "", "undefined")
                            EXCEPT !.attempted = Registered,
                                   !.failed = failed]
  /\ UNCHANGED << leaked, immediates, invocations >>
  /\ UNCHANGED << serviceVars, scopeVars, apiVars, serverVars, ticks >>

\* stop(); faults are the tasks whose task.stop() throws
stop(faults) ==
  /\ opNo < MaxOps
  /\ opNo' = opNo + 1
  /\ IF stopSkips(isInitialized)
     THEN /\ last' = OpRecord("stop", "", "undefined")
          /\ UNCHANGED << tasks, trigger, isInitialized >>
     ELSE LET failed == faults \cap Registered
              done == Registered \ failed
          IN  /\ trigger' = setTrigger(trigger, done, "stopped")
              /\ tasks' = setRunning(tasks, done, FALSE)
              /\ isInitialized' = FALSE
              /\ last' = [OpRecord("stop", "", "undefined")
                            EXCEPT !.attempted = Registered,
                                   !.failed = failed]
  /\ UNCHANGED << leaked, immediates, invocations >>
  /\ UNCHANGED << serviceVars, scopeVars, apiVars, serverVars, ticks >>

\* triggerTask(name), up to its result; outcome is how the caller's task
\* function ends if it is invoked
triggerTask(name, outcome) ==
  /\ opNo < MaxOps
  /\ opNo' = opNo + 1
  /\ LET found == tasks[name].set
         wrapped == IF found THEN registeredFunction(outcome) ELSE NoOutcome
         res == triggerTaskResult(found, wrapped)
     IN  last' = [OpRecord("triggerTask", name,
                           IF res.kind = "throw" THEN "none" ELSE res.val)
                    EXCEPT !.threw = (res.kind = "throw"),
                           !.invoked = IF found THEN 1 ELSE 0,
                           !.fn = IF found THEN outcome ELSE NoOutcome,
                           !.wrapped = wrapped]
  /\ UNCHANGED << tasks, trigger, leaked, isInitialized, immediates,
                  invocations >>
  /\ UNCHANGED << serviceVars, scopeVars, apiVars, serverVars, ticks >>

\* a cron task fires and calls the function given to cron.schedule; a
\* rejection of that function is handled by nobody
cronFire(name, outcome) ==
  /\ opNo < MaxOps
  /\ trigger[name] = "started" \/ name \in leaked
  /\ opNo' = opNo + 1
  /\ LET wrapped == executeScheduledTask(outcome)
     IN  last' = [OpRecord("cron", name, "none")
                    EXCEPT !.invoked = 1, !.fn = outcome, !.wrapped = wrapped,
                           !.unhandled = (wrapped.kind = "throw")]
  /\ UNCHANGED << tasks, trigger, leaked, isInitialized, immediates,
                  invocations >>
  /\ UNCHANGED << serviceVars, scopeVars, apiVars, serverVars, ticks >>

\* the setImmediate callback of scheduleTask(..., runImmediately = true):
\* executeScheduledTask().catch(log)
runImmediately(name, outcome) ==
  /\ name \in immediates
  /\ immediates' = immediates \ {name}
  /\ invocations' = [invocations EXCEPT ![name] = @ + 1]
  /\ LET wrapped == executeScheduledTask(outcome)
     IN  last' = [OpRecord("immediate", name, "none")
                    EXCEPT !.invoked = 1, !.fn = outcome, !.wrapped = wrapped]
  /\ UNCHANGED << tasks, trigger, leaked, isInitialized, opNo >>
  /\ UNCHANGED << serviceVars, scopeVars, apiVars, serverVars, ticks >>

SchedInit == Init /\ store = {} /\ directory = << >>

SchedNext ==
  \/ \E name \in SchedNames, cronExpression \in CronExpressions,
        immediately \in BOOLEAN, fault \in {"none", "schedule", "stop"} :
       scheduleTask(name, cronExpression, immediately, fault)
  \/ \E syncEnabled \in BOOLEAN, cronSchedule \in CronExpressions,
        fault \in {"none", "schedule", "stop"} :
       initialiseAdminUserSync(syncEnabled, cronSchedule, fault)
  \/ \E faults \in SUBSET SchedNames : start(faults)
  \/ \E faults \in SUBSET SchedNames : stop(faults)
  \/ \E name \in SchedNames, outcome \in TaskOutcomes :
       triggerTask(name, outcome)
  \/ \E name \in SchedNames, outcome \in TaskOutcomes :
       cronFire(name, outcome)
  \/ \E name \in SchedNames, outcome \in TaskOutcomes :
       runImmediately(name, outcome)

SpecSched == SchedInit /\ [][SchedNext]_vars

\* the event loop runs a pending setImmediate callback on its next turn
SpecSchedFair ==
  /\ SpecSched
  /\ WF_vars(\E name \in SchedNames, outcome \in TaskOutcomes :
               runImmediately(name, outcome))

\* C15: scheduleTask returns false and leaves the registry as it was when
\* the name is registered already, when the cron expression fails
\* validation, or when creating the cron task (cron.schedule, then the
\* task's first stop) throws; otherwise it returns true and the registry has
\* exactly one new entry, under that name.
C15_ScheduleTask ==
  [][(opNo' # opNo /\ last'.op = "scheduleTask") =>
       LET n == last'.name
           rejected == \/ tasks[n].set
                       \/ ~ validate(last'.cron)
                       \/ last'.fault # "none"
       IN  /\ ~ last'.threw
           /\ IF rejected
              THEN last'.result = "false" /\ tasks' = tasks
              ELSE /\ last'.result = "true"
                   /\ tasks'[n] = [cronExpression |-> last'.cron,
                                   isRunning |-> FALSE, set |-> TRUE]
                   /\ \A m \in SchedNames \ {n} : tasks'[m] = tasks[m]]_vars

C15_DuplicateRejected ==
  /\ last.op = "scheduleTask" /\ last.result = "false"
  /\ last.fault = "none" /\ validate(last.cron)
  /\ tasks[last.name].set
  /\ Cardinality(Registered) = 1

\* C16: the function the scheduler registers for a task never rejects,
\* whether the caller's function resolves, rejects with an Error or rejects
\* with another value: no invocation by the cron task, by setImmediate or by
\* triggerTask ends in a rejection.
C16_WrapperNeverRejects ==
  last.invoked = 1 =>
    /\ last.wrapped = Returned("undefined")
    /\ ~ last.unhandled
    /\ ~ last.threw

C16_CronFailureCaught ==
  /\ last.op = "cron" /\ last.fn = Threw("String error")
  /\ last.wrapped = Returned("undefined")
  /\ trigger[last.name] = "started" /\ isInitialized

\* C17: start() on a started scheduler changes nothing and starts no task;
\* otherwise it starts every registered task, marks running each task whose
\* start did not throw, goes on after a task whose start throws, and leaves
\* the scheduler started in every case.
C17_Start ==
  [][(opNo' # opNo /\ last'.op = "start") =>
       /\ isInitialized'
       /\ ~ last'.threw
       /\ IF isInitialized
          THEN /\ last'.attempted = {}
               /\ tasks' = tasks /\ trigger' = trigger
          ELSE /\ last'.attempted = Registered
               /\ \A n \in Registered :
                    IF n \in last'.failed
                    THEN tasks'[n] = tasks[n] /\ trigger'[n] = trigger[n]
                    ELSE tasks'[n].isRunning /\ trigger'[n] = "started"
               /\ \A n \in SchedNames \ Registered :
                    tasks'[n] = tasks[n] /\ trigger'[n] = trigger[n]]_vars

C17_StartedDespiteFailure ==
  /\ last.op = "start" /\ isInitialized
  /\ Cardinality(last.failed) = 1 /\ Cardinality(last.attempted) = 2
  /\ \E n \in Registered : tasks[n].isRunning /\ trigger[n] = "started"
  /\ \E n \in Registered : ~ tasks[n].isRunning

\* C18: stop() on a scheduler that is not started changes nothing and stops
\* no task; otherwise it stops every registered task, marks not running
\* each task whose stop did not throw, and leaves the scheduler not started;
\* a failing stop of a task is not propagated.
C18_Stop ==
  [][(opNo' # opNo /\ last'.op = "stop") =>
       /\ ~ isInitialized'
       /\ ~ last'.threw
       /\ IF ~ isInitialized
          THEN /\ last'.attempted = {}
               /\ tasks' = tasks /\ trigger' = trigger
          ELSE /\ last'.attempted = Registered
               /\ \A n \in Registered :
                    IF n \in last'.failed
                    THEN tasks'[n] = tasks[n] /\ trigger'[n] = trigger[n]
                    ELSE ~ tasks'[n].isRunning /\ trigger'[n] = "stopped"
               /\ \A n \in SchedNames \ Registered :
                    tasks'[n] = tasks[n] /\ trigger'[n] = trigger[n]]_vars

C18_StoppedAfterStart ==
  /\ last.op = "stop" /\ ~ isInitialized
  /\ last.attempted # {} /\ last.failed = {}
  /\ \A n \in Registered : ~ tasks[n].isRunning /\ trigger[n] = "stopped"

\* C19: triggerTask returns false for a name that is not registered, without
\* invoking anything; for a registered name it awaits one invocation of the
\* registered function and returns false if that invocation throws; it
\* never throws.
C19_TriggerTaskNeverThrows ==
  /\ \A w \in TaskOutcomes \cup {Returned("undefined")} :
       triggerTaskResult(TRUE, w) =
         Returned(IF w.kind = "throw" THEN "false" ELSE "true")
  /\ last.op = "triggerTask" =>
       /\ ~ last.threw
       /\ last.result \in {"true", "false"}
       /\ last.invoked = (IF tasks[last.name].set THEN 1 ELSE 0)
       /\ (~ tasks[last.name].set => last.result = "false")
       /\ (last.wrapped.kind = "throw" => last.result = "false")

C19_UnknownName ==
  /\ last.op = "triggerTask" /\ last.result = "false"
  /\ ~ tasks[last.name].set /\ Registered # {}

\* C20: triggerTask on a registered task invokes the caller's function
\* exactly once and returns true, also when that function rejects, and
\* whether the scheduler is started or not.
C20_TriggerRegistered ==
  (last.op = "triggerTask" /\ tasks[last.name].set) =>
    /\ last.invoked = 1
    /\ last.fn \in TaskOutcomes
    /\ last.result = "true"

C20_TriggeredRejecting ==
  /\ last.op = "triggerTask" /\ last.result = "true"
  /\ last.fn = Threw("Error") /\ last.invoked = 1
  /\ ~ isInitialized /\ opNo > 2

TimeoutArgs == { Omitted, Given(1), Given(30), Given(45) }

C27_AcquireIgnoresExpiry ==
  [][/\ \A p \in Procs :
          (runNo'[p] # runNo[p] /\ \E r \in locks : r.lockName = LOCK_NAME)
            => ~ acquired'[p] /\ locks' = locks
     /\ \A r \in locks \ locks' :
          \/ \E p \in Procs :
               /\ pc[p] = "release" /\ pc'[p] = "settle"
               /\ r.lockId = lockId[p]
          \/ pc' = pc /\ runNo' = runNo /\ r.expiresAt <= now]_vars

\* an acquire has failed on a record whose expiresAt had passed
C27_BusyOnExpiredRecord ==
  \E p \in Procs :
    /\ pc[p] = "done" /\ ~ acquired[p] /\ wlOutcome[p] = Returned("null")
    /\ \E r \in locks :
         r.lockName = LOCK_NAME /\ r.expiresAt <= now /\ r.lockId # lockId[p]

\* C28 as stated: the reconciliation body executes only while the caller
\* executing it holds the 'admin-user-sync' lock record it inserted.
C28_BodyOnlyUnderLock ==
  \A p \in Procs :
    InAction(p) =>
      \E r \in locks : r.lockName = LOCK_NAME /\ r.lockId = lockId[p]

\* C30: when the lock insert fails with anything but a duplicate key,
\* withLock rejects with that error, the action is not invoked and no
\* release is attempted; only code 11000 makes acquireLock return false.
C30_InsertErrorRethrown ==
  /\ [][\A p \in Procs :
          runNo'[p] # runNo[p] =>
            /\ (~ acquired'[p] /\ ~ \E r \in locks : r.lockName = LOCK_NAME)
                 => wlOutcome'[p] = Threw("InsertError")
            /\ wlOutcome'[p].kind = "throw" =>
                 /\ pc'[p] = "done"
                 /\ ~ acquired'[p]
                 /\ syncAdminUsersFromGroupResult(wlOutcome'[p])
                      = Threw("InsertError")
                 /\ fnOutcome'[p] = NoOutcome /\ session'[p] = "none"
                 /\ releaseResult'[p] = NoRelease
                 /\ locks' = locks /\ store' = store]_vars
  /\ \A code \in {0, DUPLICATE_KEY_ERROR_CODE, DUPLICATE_KEY_ERROR_CODE + 1} :
       (acquireLockResult([ok |-> FALSE, code |-> code]) = "false")
         <=> code = 11000

\* the insert failed on an empty lock store and the call rejected
C30_InsertFailed ==
  \E p \in Procs :
    /\ pc[p] = "done" /\ wlOutcome[p] = Threw("InsertError")
    /\ ~ acquired[p] /\ releaseResult[p] = NoRelease
    /\ fnOutcome[p] = NoOutcome /\ locks = {}

\* ------------------------------------------------------ scope derivation
\* the scope table of the variant that pushes: no form-publish
ScopesPush ==
  << "form-delete", "form-edit", "form-read",
     "user-create", "user-delete", "user-edit" >>

RoleScopesPush(role) ==
  IF role = Roles.Admin THEN ScopesPush
  ELSE << "form-read", "form-edit" >>

\* scopes.push(...RoleScopes[role]) for every role, in order
RECURSIVE mapScopesToRolesPush(_)
mapScopesToRolesPush(roles) ==
  IF roles = << >> THEN << >>
  ELSE RoleScopesPush(Head(roles)) \o mapScopesToRolesPush(Tail(roles))

\* role lists over the two roles, with repetitions, in every order
RoleLists ==
  UNION { [1..n -> {Roles.Admin, Roles.FormCreator}] : n \in 0..MaxRoles }

\* mapScopesToRoles of the Set-based variant, called on both lists
applySetBased ==
  /\ derived' = [variant |-> "set",
                 a |-> mapScopesToRoles(roleLists[1]),
                 b |-> mapScopesToRoles(roleLists[2])]
  /\ UNCHANGED << roleLists, serviceVars, schedVars, apiVars, serverVars, ticks >>

\* mapScopesToRoles of the push-based variant, called on both lists
applyPushBased ==
  /\ derived' = [variant |-> "push",
                 a |-> mapScopesToRolesPush(roleLists[1]),
                 b |-> mapScopesToRolesPush(roleLists[2])]
  /\ UNCHANGED << roleLists, serviceVars, schedVars, apiVars, serverVars, ticks >>

ScopesInit ==
  /\ ServiceInit /\ store = {} /\ directory = << >>
  /\ SchedulerService
  /\ NoApiCall
  /\ NoServer
  /\ ticks = << >>
  /\ roleLists \in RoleLists \X RoleLists
  /\ derived = NoDerived

ScopesNext == applySetBased \/ applyPushBased

SpecScopes == ScopesInit /\ [][ScopesNext]_vars

\* the static scopes of a role, as the variant that ran has them
StaticScopes(variant, role) ==
  IF variant = "push" THEN SeqToSet(RoleScopesPush(role))
  ELSE SeqToSet(RoleScopes(role))

UnionOfStatic(variant, roles) ==
  UNION { StaticScopes(variant, r) : r \in SeqToSet(roles) }

NoDuplicates(s) == \A i, j \in 1..Len(s) : s[i] = s[j] => i = j

\* C14: whichever variant of mapScopesToRoles ran, the result for a role
\* list holds exactly the union of the static scopes of its roles, holds no
\* scope twice, and two lists with the same roles (in any order, with any
\* repetition) yield the same set of scopes.
C14_ScopeDerivation ==
  derived.variant # "none" =>
    /\ SeqToSet(derived.a) = UnionOfStatic(derived.variant, roleLists[1])
    /\ NoDuplicates(derived.a)
    /\ SeqToSet(roleLists[1]) = SeqToSet(roleLists[2]) =>
         SeqToSet(derived.a) = SeqToSet(derived.b)

\* ------------------------------------------------------------- user API
\* the replica whose reconciliation runs interleave with the API calls
ApiProcs == {"p1"}

\* roles: Joi.array().items(Joi.string().valid(Roles.Admin, Roles.FormCreator))
ApiRoles ==
  { << "admin" >>, << "form-creator" >>, << "form-creator", "admin" >> }

\* what can go wrong in a call: the directory lookup or the store operation
ApiFaults == {"none", "directory", "store"}

\* a write of the document of userId meets an uncommitted write of an open
\* transaction: the store reports a write conflict and withTransaction
\* runs the callback again, so the call goes on once that transaction ended
WriteConflict(userId) ==
  \E p \in Procs :
    /\ txState[p] = "open"
    /\ \E i \in 1..Len(calls[p]) :
         calls[p][i].result = "ok" /\ calls[p][i].userId = userId

\* remove: deleteOne, then an error unless deletedCount is 1
remove(coll, userId, fault) ==
  IF fault THEN "error"
  ELSE IF \E r \in coll : r.userId = userId THEN "ok"
  ELSE "notDeleted"

\* the directory or store lookup a call of the API starts with
lookup(op) ==
  IF op = "addUser" THEN "getUserByEmail"
  ELSE IF op = "updateUser" THEN "validateUser"
  ELSE "findExistingUser"

\* the event a call of the API publishes
publish(op) ==
  IF op = "addUser" THEN "publishEntitlementCreatedEvent"
  ELSE IF op = "updateUser" THEN "publishEntitlementUpdatedEvent"
  ELSE "publishEntitlementDeletedEvent"

\* a call that publishes its event before it opens the transaction
apiTracePublishFirst(op, result) ==
  IF result = "notFound" THEN << lookup(op) >>
  ELSE << lookup(op), publish(op), "withTransaction" >>

\* the awaits of addUser, updateUser and deleteUser, in order, up to the
\* one that throws: the lookup, session.withTransaction, the publish
apiTrace(op, result) ==
  IF result = "notFound" THEN << lookup(op) >>
  ELSE IF result # "ok" THEN << lookup(op), "withTransaction" >>
  ELSE << lookup(op), "withTransaction", publish(op) >>

\* a committed write of the API ends every running caller's solo run
ApiCall(op, userId, result) ==
  /\ apiNo' = apiNo + 1
  /\ lastApi' = [op |-> op, userId |-> userId, result |-> result,
                 before |-> { r.roles : r \in { d \in store : d.userId = userId } },
                 trace |-> apiTrace(op, result)]
  /\ solo' = [q \in Procs |-> IF store' # store THEN FALSE ELSE solo[q]]
  /\ UNCHANGED << now, directory, pc, runNo, lockVars, syncVars, afterRun,
                  lastRun >>
  /\ UNCHANGED << schedVars, scopeVars, serverVars, ticks >>

\* addUser: directory lookup by email, then createUserInternal in a
\* transaction of its own
addUser(u, roles, fault) ==
  /\ apiNo + TotalRuns < MaxApiCalls
  /\ ~ WriteConflict(u)
  /\ LET azureUser == AzureUser(u)
         document == createUserInternal(azureUser.id, roles, azureUser.email,
                                        azureUser.displayName)
         result == IF fault = "directory" THEN "notFound"
                   ELSE create(store, document, fault = "store")
     IN  /\ store' = IF result = "ok" THEN store \cup {document} ELSE store
         /\ ApiCall("addUser", u, result)

\* updateUser: validateUser, then updateUserInternal in a transaction of
\* its own
updateUser(userId, roles, fault) ==
  /\ apiNo + TotalRuns < MaxApiCalls
  /\ ~ WriteConflict(userId)
  /\ LET user == updateUserInternal(userId, roles)
         result == IF fault = "directory" THEN "notFound"
                   ELSE update(store, userId, user, fault = "store")
     IN  /\ store' = IF result = "ok"
                     THEN ApplyCall(store, [op |-> "update", userId |-> userId,
                                            doc |-> user])
                     ELSE store
         /\ ApiCall("updateUser", userId, result)

\* deleteUser: findExistingUser, then remove in a transaction of its own
deleteUser(userId, fault) ==
  /\ apiNo + TotalRuns < MaxApiCalls
  /\ ~ WriteConflict(userId)
  /\ LET result == remove(store, userId, fault)
     IN  /\ store' = IF result = "ok"
                     THEN { r \in store : r.userId # userId }
                     ELSE store
         /\ ApiCall("deleteUser", userId, result)

\* the scheduled sync function starts a reconciliation run
syncFunction(p) ==
  /\ apiNo + TotalRuns < MaxApiCalls
  /\ syncAdminUsersFromGroup(p)

ApiNext ==
  \/ \E p \in ApiProcs : syncFunction(p)
  \/ \E p \in ApiProcs : getGroupMembers(p)
  \/ \E p \in ApiProcs : processAllAdminUsers(p)
  \/ \E p \in ApiProcs : processAdminUser(p)
  \/ \E p \in ApiProcs : withTransaction(p)
  \/ \E p \in ApiProcs : releaseLock(p)
  \/ \E p \in ApiProcs : withLock(p)
  \/ \E u \in Users, roles \in ApiRoles, fault \in ApiFaults :
       addUser(u, roles, fault)
  \/ \E u \in Users, roles \in ApiRoles, fault \in ApiFaults :
       updateUser(u, roles, fault)
  \/ \E u \in Users, fault \in BOOLEAN : deleteUser(u, fault)

\* the service starts on an empty collection: the API calls and the runs
\* write every record
ApiInit == Init /\ store = {}

SpecApi == ApiInit /\ [][ApiNext]_vars

\* C13: every stored record's scopes are exactly the union of the static
\* scopes of the roles stored in that record, after any sequence of
\* addUser, updateUser, deleteUser and reconciliation runs.
C13_ScopeInvariant ==
  \A r \in store : SeqToSet(r.scopes) = UnionOfStatic("set", r.roles)

\* an updateUser that took the admin role away from a record a
\* reconciliation run had written before
C13_RolesReplaced ==
  /\ lastApi.op = "updateUser" /\ lastApi.result = "ok"
  /\ lastRun.status \in {"clean", "partial"} /\ lastRun.writes > 0
  /\ lastApi.before = { << "admin" >> }
  /\ \E r \in store :
       /\ r.userId = lastApi.userId
       /\ r.roles = << "form-creator" >>

\* C21: initialiseAdminUserSync returns null and registers nothing when the
\* sync is disabled; when enabled and the registration succeeds it returns
\* the scheduler with 'admin-user-sync' registered under the configured
\* schedule and its immediate run pending; when the registration fails it
\* throws 'Failed to initialize admin user sync scheduler' and registers
\* no task.
C21_InitialiseAdminUserSync ==
  [][(opNo' # opNo /\ last'.op = "initialiseAdminUserSync") =>
       LET rejected == \/ tasks[LOCK_NAME].set
                       \/ ~ validate(last'.cron)
                       \/ last'.fault # "none"
       IN  IF ~ last'.enabled
           THEN /\ ~ last'.threw /\ last'.result = "null"
                /\ tasks' = tasks /\ immediates' = immediates
           ELSE IF rejected
           THEN /\ last'.threw /\ last'.result = "none"
                /\ tasks' = tasks /\ immediates' = immediates
           ELSE /\ ~ last'.threw /\ last'.result = "scheduler"
                /\ tasks' = [tasks EXCEPT ![LOCK_NAME] =
                               [cronExpression |-> last'.cron,
                                isRunning |-> FALSE, set |-> TRUE]]
                /\ immediates' = immediates \cup {LOCK_NAME}]_vars

\* the call threw on an invalid cron expression and no task is registered
C21_InvalidCronThrows ==
  /\ last.op = "initialiseAdminUserSync" /\ last.threw
  /\ last.enabled /\ ~ validate(last.cron) /\ last.fault = "none"
  /\ Registered = {}

\* C25: a successful scheduleTask leaves the task stopped (isRunning false,
\* trigger stopped) and invokes nothing before it returns; with
\* runImmediately the wrapped function is invoked once afterwards, started
\* scheduler or not, and never a second time; without runImmediately no
\* invocation is left pending.
C25_RegisteredStopped ==
  /\ [][(opNo' # opNo /\ last'.op = "scheduleTask") =>
          LET n == last'.name
          IN  /\ invocations' = invocations
              /\ isInitialized' = isInitialized
              /\ last'.invoked = 0
              /\ last'.result = "true" =>
                   /\ tasks'[n].isRunning = FALSE
                   /\ trigger'[n] = "stopped"
                   /\ immediates' = IF last'.immediately
                                    THEN immediates \cup {n}
                                    ELSE immediates
              /\ last'.result = "false" => immediates' = immediates]_vars
  /\ [](\A n \in SchedNames :
          invocations[n] + (IF n \in immediates THEN 1 ELSE 0) <= 1)
  /\ \A n \in SchedNames : (n \in immediates) ~> (invocations[n] = 1)

\* the immediate run of a task has happened on a scheduler never started
C25_RanWithoutStart ==
  /\ last.op = "immediate" /\ invocations[last.name] = 1
  /\ tasks[last.name].set /\ ~ tasks[last.name].isRunning
  /\ trigger[last.name] = "stopped" /\ ~ isInitialized
  /\ \E n \in Registered : invocations[n] = 0 /\ n \notin immediates

\* --------------------------------------------------- firings of the task
\* what a firing came to: the body ran, the call threw, or it was skipped
firingResult(acq, threw) ==
  IF acq THEN "ran" ELSE IF threw THEN "threw" ELSE "skipped"

\* a firing of the sync task (cron tick, immediate run or manual trigger,
\* in this process or another): executeScheduledTask awaits taskFunction(),
\* which is syncAdminUsersFromGroup
taskFunction(p) ==
  /\ TotalRuns < MaxFirings
  /\ syncAdminUsersFromGroupCall(p)
  /\ ticks' = Append(ticks,
       [caller |-> p,
        result |-> firingResult(acquired'[p], wlOutcome'[p].kind = "throw")])
  /\ UNCHANGED serverVars

\* both callers start on an empty collection with one member in the group
TicksInit == Init /\ store = {} /\ directory = << AzureUser("u1") >>

TicksNext ==
  \/ \E p \in Procs : taskFunction(p)
  \/ \E p \in Procs : getGroupMembers(p)
  \/ \E p \in Procs : processAllAdminUsers(p)
  \/ \E p \in Procs : processAdminUser(p)
  \/ \E p \in Procs : withTransaction(p)
  \/ \E p \in Procs : releaseLock(p)
  \/ \E p \in Procs : withLock(p)

SpecTicks == TicksInit /\ [][TicksNext]_vars

\* the caller holds the lock: its record is in the lock store
Holds(q) ==
  /\ pc[q] \in {"getGroupMembers", "getAll", "processAdminUser", "commit",
                "release"}
  /\ \E r \in locks : r.lockName = LOCK_NAME /\ r.lockId = lockId[q]

\* C23: a firing that comes while another run holds the lock is skipped (or
\* fails on the insert), does not run the reconciliation body and leaves
\* nothing behind that would run it
\* later: the body of a caller starts only in the step of a firing of that
\* caller that acquired the lock; a firing that comes when no record is in
\* the lock store acquires the lock and starts the body, unless the insert
\* itself fails.
C23_NoQueueing ==
  [][\A p \in Procs :
       /\ (runNo'[p] # runNo[p] /\ \E q \in Procs \ {p} : Holds(q)) =>
            /\ ticks'[Len(ticks')].result =
                 (IF wlOutcome'[p].kind = "throw" THEN "threw" ELSE "skipped")
            /\ ~ acquired'[p]
            /\ pc'[p] = "done" /\ fnOutcome'[p] = NoOutcome
            /\ session'[p] = "none"
            /\ locks' = locks /\ store' = store
       /\ (pc'[p] = "getGroupMembers" /\ pc[p] # "getGroupMembers") =>
            /\ runNo'[p] = runNo[p] + 1
            /\ acquired'[p]
            /\ ticks'[Len(ticks')] = [caller |-> p, result |-> "ran"]
       /\ (runNo'[p] # runNo[p]
             /\ ~ \E r \in locks : r.lockName = LOCK_NAME) =>
            \/ acquired'[p] /\ pc'[p] = "getGroupMembers"
            \/ wlOutcome'[p].kind = "throw"]_vars

\* a firing was skipped while a run held the lock, the holder released it,
\* and the next firing of the skipped caller runs the body
C23_LaterFiringRuns ==
  \E p \in Procs : \E q \in Procs \ {p} :
    /\ ticks = << [caller |-> q, result |-> "ran"],
                  [caller |-> p, result |-> "skipped"],
                  [caller |-> p, result |-> "ran"] >>
    /\ pc[q] = "done" /\ releaseResult[q].outcome = Returned("true")
    /\ InAction(p) /\ Holds(p)

\* ---------------------------------------------------------------------
\* The server: the scheduler plugin and the two routes that run the sync
\* on request

\* if (schedulerService) in the plugin's register
pluginStartsAlways(res) == res.kind = "return"

pluginStarts(res) == res.kind = "return" /\ res.val = "scheduler"

\* register(server) of the scheduler plugin: initialiseAdminUserSync, then
\* start(), server.app.scheduler and the stop handler, all in one
\* synchronous call; faults are the tasks whose task.start() throws
register(syncEnabled, cronSchedule, fault, faults) ==
  /\ plugin.result = "none"
  /\ LET success == scheduleTaskResult(LOCK_NAME, cronSchedule, TRUE, fault)
         res == initialiseResult(syncEnabled, success)
         checked == ~ nameTaken(tasks, LOCK_NAME) /\ validate(cronSchedule)
         created == syncEnabled /\ checked /\ fault # "schedule"
         ok == syncEnabled /\ success
         scheduled == IF ok THEN setTask(tasks, LOCK_NAME, cronSchedule)
                      ELSE tasks
         stoppedTrigger == IF ok
                           THEN setTrigger(trigger, {LOCK_NAME}, "stopped")
                           ELSE trigger
         starts == pluginStarts(res)
         runs == starts /\ ~ startSkips(isInitialized)
         names == { n \in SchedNames : scheduled[n].set }
         done == names \ faults
     IN  /\ tasks' = IF runs THEN setRunning(scheduled, done, TRUE)
                     ELSE scheduled
         /\ trigger' = IF runs THEN setTrigger(stoppedTrigger, done, "started")
                       ELSE stoppedTrigger
         /\ isInitialized' = (isInitialized \/ runs)
         /\ leaked' = IF created /\ ~ ok THEN leaked \cup {LOCK_NAME}
                      ELSE leaked
         /\ immediates' = IF ok /\ setImmediateCalled(TRUE)
                          THEN immediates \cup {LOCK_NAME}
                          ELSE immediates
         /\ plugin' =
              [plugin EXCEPT
                 !.result = IF res.kind = "throw" THEN "threw" ELSE res.val,
                 !.scheduler = IF res.kind = "throw" THEN "unset"
                               ELSE IF starts THEN "scheduler" ELSE "null",
                 !.stopHandlers = IF starts THEN 1 ELSE 0,
                 !.starts = IF starts THEN 1 ELSE 0,
                 !.enabled = syncEnabled]
         /\ last' = [OpRecord("register", LOCK_NAME,
                              IF res.kind = "throw" THEN "none" ELSE res.val)
                       EXCEPT !.threw = (res.kind = "throw"),
                              !.cron = cronSchedule, !.fault = fault,
                              !.enabled = syncEnabled,
                              !.attempted = IF runs THEN names ELSE {},
                              !.failed = IF runs THEN names \cap faults
                                         ELSE {}]
  /\ UNCHANGED << invocations, opNo, request, migration >>
  /\ UNCHANGED << serviceVars, scopeVars, apiVars, ticks >>

\* the server emits 'stop': the handler the plugin registered, if any,
\* calls schedulerService.stop()
serverStop(faults) ==
  /\ plugin.result \in {"scheduler", "null"}
  /\ ~ plugin.stopped
  /\ IF plugin.stopHandlers > 0
     THEN IF stopSkips(isInitialized)
          THEN UNCHANGED << tasks, trigger, isInitialized >>
          ELSE LET done == Registered \ faults
               IN  /\ trigger' = setTrigger(trigger, done, "stopped")
                   /\ tasks' = setRunning(tasks, done, FALSE)
                   /\ isInitialized' = FALSE
     ELSE UNCHANGED << tasks, trigger, isInitialized >>
  /\ plugin' = [plugin EXCEPT !.stopped = TRUE,
                              !.stops = @ + plugin.stopHandlers]
  /\ last' = [OpRecord("serverStop", "", "undefined")
                EXCEPT !.attempted = IF plugin.stopHandlers > 0
                                        /\ ~ stopSkips(isInitialized)
                                     THEN Registered ELSE {},
                       !.failed = IF plugin.stopHandlers > 0
                                     /\ ~ stopSkips(isInitialized)
                                  THEN Registered \cap faults ELSE {}]
  /\ UNCHANGED << leaked, immediates, invocations, opNo, request,
                  migration >>
  /\ UNCHANGED << serviceVars, scopeVars, apiVars, ticks >>

\* the server accepts requests once its plugins are registered and until it
\* stops
Listening ==
  /\ plugin.result \in {"scheduler", "null"}
  /\ ~ plugin.stopped

NewRequest(route) ==
  [route |-> route, state |-> "called", status |-> 0, no |-> request.no + 1,
   outcome |-> NoOutcome]

\* POST /users/sync, up to the await of syncAdminUsersFromGroup()
postUsersSync(p) ==
  /\ Listening
  /\ request.state # "called"
  /\ request.no < MaxRequests
  /\ syncAdminUsersFromGroupCall(p)
  /\ request' = NewRequest("/users/sync")
  /\ UNCHANGED << plugin, migration, ticks >>

\* the handler of POST /users/sync after the await: the success message, or
\* Boom.internal for an error that is not a Boom error
usersSyncStatus(res) == IF res.kind = "throw" THEN 500 ELSE 200

\* the handler of POST /scheduler/sync-admin-users after the await of
\* scheduler.triggerTask: Boom.internal unless it resolved true
schedulerSyncStatus(available, res) ==
  IF ~ available THEN 500
  ELSE IF res.kind = "throw" THEN 500
  ELSE IF res.val # "true" THEN 500
  ELSE 200

\* POST /scheduler/sync-admin-users, up to the await inside triggerTask;
\* without a scheduler, or without the task, the answer is given at once
postSchedulerSync(p) ==
  /\ Listening
  /\ request.state # "called"
  /\ request.no < MaxRequests
  /\ LET available == plugin.scheduler = "scheduler"
         found == available /\ tasks[LOCK_NAME].set
     IN  IF found
         THEN /\ syncAdminUsersFromGroupCall(p)
              /\ request' = NewRequest("/scheduler/sync-admin-users")
         ELSE /\ request' =
                   [NewRequest("/scheduler/sync-admin-users") EXCEPT
                      !.state = "done",
                      !.status = schedulerSyncStatus(available,
                                   triggerTaskResult(FALSE, NoOutcome))]
              /\ UNCHANGED << serviceVars, schedVars, scopeVars, apiVars >>
  /\ UNCHANGED << plugin, migration, ticks >>

\* the awaited call has settled and the handler answers
respond(p) ==
  /\ request.state = "called"
  /\ pc[p] = "done"
  /\ LET res == syncAdminUsersFromGroupResult(wlOutcome[p])
     IN  request' =
           [request EXCEPT
              !.state = "done",
              !.outcome = res,
              !.status =
                 IF request.route = "/users/sync"
                 THEN usersSyncStatus(res)
                 ELSE schedulerSyncStatus(TRUE,
                        triggerTaskResult(TRUE, registeredFunction(res)))]
  /\ UNCHANGED << plugin, migration, ticks >>
  /\ UNCHANGED << serviceVars, schedVars, scopeVars, apiVars >>

\* the requests of one server process
ServerProcs == {"p1"}

ServerInit == Init /\ store = {} /\ directory = << AzureUser("u1") >>

ServerNext ==
  \/ \E syncEnabled \in BOOLEAN, cronSchedule \in CronExpressions,
        fault \in {"none", "schedule", "stop"},
        faults \in SUBSET {LOCK_NAME} :
       register(syncEnabled, cronSchedule, fault, faults)
  \/ \E faults \in SUBSET {LOCK_NAME} : serverStop(faults)
  \/ \E p \in ServerProcs : postUsersSync(p)
  \/ \E p \in ServerProcs : postSchedulerSync(p)
  \/ \E p \in ServerProcs : respond(p)
  \/ \E p \in ServerProcs : getGroupMembers(p)
  \/ \E p \in ServerProcs : processAllAdminUsers(p)
  \/ \E p \in ServerProcs : processAdminUser(p)
  \/ \E p \in ServerProcs : withTransaction(p)
  \/ \E p \in ServerProcs : releaseLock(p)
  \/ \E p \in ServerProcs : withLock(p)

SpecServer == ServerInit /\ [][ServerNext]_vars

\* C29: the plugin's lifecycle. When initialiseAdminUserSync returns a
\* scheduler, register calls start() once, exposes the scheduler as
\* server.app.scheduler and registers one stop handler, and the server's
\* 'stop' event calls stop(); when it returns null, server.app.scheduler is
\* null, start() is not called, no handler is registered and the 'stop'
\* event leaves the scheduler alone; when it throws, register rethrows and
\* nothing is exposed or registered.
C29_PluginLifecycle ==
  [][ /\ (plugin.result = "none" /\ plugin'.result = "scheduler") =>
           /\ plugin'.starts = 1
           /\ isInitialized'
           /\ last'.attempted = { n \in SchedNames : tasks'[n].set }
           /\ plugin'.scheduler = "scheduler"
           /\ plugin'.stopHandlers = 1
           /\ ~ last'.threw
      /\ (plugin.result = "none" /\ plugin'.result = "null") =>
           /\ plugin'.scheduler = "null"
           /\ plugin'.starts = 0
           /\ plugin'.stopHandlers = 0
           /\ ~ last'.threw
           /\ UNCHANGED << tasks, trigger, isInitialized >>
      /\ (plugin.result = "none" /\ plugin'.result = "threw") =>
           /\ last'.threw
           /\ plugin'.scheduler = "unset"
           /\ plugin'.starts = 0
           /\ plugin'.stopHandlers = 0
           /\ ~ isInitialized'
      /\ (~ plugin.stopped /\ plugin'.stopped) =>
           IF plugin.result = "scheduler"
           THEN /\ plugin'.stops = 1
                /\ ~ isInitialized'
                /\ last'.attempted = Registered
           ELSE /\ plugin'.stops = 0
                /\ UNCHANGED << tasks, trigger, isInitialized >>
      /\ plugin'.starts <= 1
      /\ plugin'.stops <= 1
    ]_vars

\* the plugin started a scheduler and the server's 'stop' event stopped it
C29_StartedThenStopped ==
  /\ plugin.result = "scheduler"
  /\ plugin.starts = 1
  /\ plugin.stopped
  /\ plugin.stops = 1
  /\ ~ isInitialized

\* C24: a request whose reconciliation run failed systemically (directory
\* API failure or transaction failure) is answered with HTTP 500, on
\* POST /users/sync and on POST /scheduler/sync-admin-users alike.
C24_FailureSurfaced ==
  (/\ request.state = "done"
   /\ request.outcome \in
        {Threw("DirectoryError"), Threw("TransactionError")})
    => request.status = 500

\* C38: a task registered by scheduleTask while the scheduler is started
\* stays stopped (not running, trigger not started) and the scheduler stays
\* started; a trigger starts only in a start() on a scheduler that is not
\* started, and a started scheduler gets there only by stop(): so the
\* trigger of such a task starts only after a stop() followed by a start().
C38_LateTaskStaysStopped ==
  [][ /\ (opNo' # opNo /\ last'.op = "scheduleTask"
            /\ last'.result = "true" /\ isInitialized) =>
           /\ isInitialized'
           /\ tasks'[last'.name].set
           /\ ~ tasks'[last'.name].isRunning
           /\ trigger'[last'.name] = "stopped"
      /\ \A n \in SchedNames :
           (trigger[n] # "started" /\ trigger'[n] = "started") =>
             /\ ~ isInitialized
             /\ opNo' # opNo /\ last'.op = "start"
      /\ (isInitialized /\ ~ isInitialized') =>
           (opNo' # opNo /\ last'.op = "stop")
    ]_vars

\* a task has just been registered on a started scheduler
C38_RegisteredWhileStarted ==
  /\ last.op = "scheduleTask" /\ last.result = "true"
  /\ isInitialized
  /\ tasks[last.name].set /\ ~ tasks[last.name].isRunning
  /\ trigger[last.name] = "stopped"
  /\ \E n \in Registered : trigger[n] = "started"

\* C32: releaseLock(lockName, lockId) deletes a record only if its lockName
\* and its lockId are those of the call: a release removes nothing but the
\* caller's own record, and a late release by a former holder, whose record
\* is gone, leaves the record of a newer holder where it is and returns
\* false.
C32_CompareAndDelete ==
  [][\A p \in Procs :
       (pc[p] = "release" /\ pc'[p] = "settle") =>
         /\ \A r \in locks \ locks' :
              r.lockName = LOCK_NAME /\ r.lockId = lockId[p]
         /\ locks' \subseteq locks
         /\ (~ \E r \in locks : r.lockId = lockId[p]) =>
              /\ locks' = locks
              /\ releaseResult'[p].outcome = Returned("false")]_vars

\* a former holder has released late: its record was gone, the record of
\* the newer holder is still there
C32_LateRelease ==
  \E p \in Procs : \E q \in Procs \ {p} :
    /\ pc[p] = "settle" /\ acquired[p]
    /\ ~ releaseResult[p].deleteFailed
    /\ releaseResult[p].outcome = Returned("false")
    /\ InAction(q)
    /\ \E r \in locks : r.lockName = LOCK_NAME /\ r.lockId = lockId[q]

\* ---------------------------------------------------------------------
\* Leases: holders that never release, and the expiry index

\* the process of a caller dies inside the action: withLock's finally block
\* never runs and the record stays
crash(p) ==
  /\ InAction(p)
  /\ pc' = [pc EXCEPT ![p] = "crashed"]
  /\ UNCHANGED << now, store, directory, runNo, lockVars, syncVars,
                  histVars >>
  /\ UNCHANGED << schedVars, scopeVars, apiVars, serverVars, ticks >>

\* time passes while a record is waiting to expire; every lease is granted
\* to a run, so the runs bound the clock
Elapse ==
  /\ \E r \in locks : r.expiresAt > now
  /\ now' = now + TickMs
  /\ UNCHANGED << store, directory, pc, runNo, lockVars, syncVars, histVars >>
  /\ UNCHANGED << schedVars, scopeVars, apiVars, serverVars, ticks >>

LeaseInit == Init /\ store = {} /\ directory = << AzureUser("u1") >>

LeaseNext ==
  \/ \E p \in Procs : syncAdminUsersFromGroup(p)
  \/ \E p \in Procs : getGroupMembers(p)
  \/ \E p \in Procs : processAllAdminUsers(p)
  \/ \E p \in Procs : processAdminUser(p)
  \/ \E p \in Procs : withTransaction(p)
  \/ \E p \in Procs : releaseLock(p)
  \/ \E p \in Procs : withLock(p)
  \/ \E p \in Procs : crash(p)
  \/ Elapse
  \/ ExpireLock

\* the clock runs, and the store's expiry monitor runs periodically and
\* removes every record whose expiresAt has passed
SpecLease ==
  LeaseInit /\ [][LeaseNext]_vars /\ WF_vars(Elapse) /\ WF_vars(ExpireLock)

\* the lockIds the runs can draw
LockIds == { randomUUID(p, n) : p \in Procs, n \in 1..MaxRuns }

\* C31: a lock record whose holder never releases it (the holder crashed,
\* or its delete failed) does not stay forever: every record in the lock
\* store is eventually gone, by release or, once expiresAt has passed, by
\* the expiry index; and an acquire that finds no record for the lock name
\* and whose insert does not fail succeeds.
C31_LeaseExpires ==
  /\ \A id \in LockIds :
       (\E r \in locks : r.lockId = id)
         ~> (~ \E r \in locks : r.lockId = id)
  /\ [][\A p \in Procs :
          (/\ runNo'[p] # runNo[p]
           /\ ~ \E r \in locks : r.lockName = LOCK_NAME
           /\ wlOutcome'[p].kind # "throw")
            => /\ acquired'[p]
               /\ \E r \in locks' :
                    /\ r.lockId = lockId'[p]
                    /\ r.createdAt = now]_vars

\* a holder crashed, its record expired and was swept, and another caller
\* holds the lock now
C31_AcquiredAfterExpiry ==
  \E p \in Procs : \E q \in Procs \ {p} :
    /\ pc[p] = "crashed"
    /\ ~ \E r \in locks : r.lockId = lockId[p]
    /\ acquired[q] /\ InAction(q)
    /\ \E r \in locks : r.lockId = lockId[q] /\ r.createdAt >= TickMs

\* ---------------------------------------------------------------------
\* Reconciliation and the other writers of the collection

\* the ids of the members of the directory group
MemberIds == { directory[i].id : i \in 1..Len(directory) }

\* C35: a step of a reconciliation run deletes no record and creates or
\* updates no record whose userId is not the id of a member of the
\* directory group: the record of a user who is not in the group stays as
\* it is, roles and scopes included.
C35_ReconciliationFrame ==
  [][apiNo' = apiNo =>
       /\ \A r \in store :
            /\ \E t \in store' : t.userId = r.userId
            /\ r.userId \notin MemberIds => r \in store'
       /\ \A t \in store' \ store : t.userId \in MemberIds]_vars

\* a run has committed a write for a member while the record of a user
\* outside the group is in the collection
C35_NonMemberKept ==
  \E p \in ApiProcs :
    /\ pc[p] = "release" /\ txState[p] = "committed"
    /\ \E k \in 1..Len(calls[p]) : calls[p][k].result = "ok"
    /\ \E r \in store :
         /\ r.userId \notin MemberIds
         /\ r.roles = << "form-creator" >>
    /\ \E r \in store : r.userId \in MemberIds /\ r.roles = << "admin" >>

C33_UniqueUserId ==
  /\ [](\A r, t \in store : r.userId = t.userId => r = t)
  /\ [][(/\ apiNo' # apiNo /\ lastApi'.op = "addUser"
          /\ \E r \in store : r.userId = lastApi'.userId) =>
           /\ lastApi'.result \in {"conflict", "notFound", "error"}
           /\ store' = store]_vars
  /\ [][\A p \in Procs :
          (pc[p] = "processAdminUser" /\ Len(calls'[p]) > Len(calls[p])) =>
            LET c == calls'[p][Len(calls'[p])]
            IN  (c.op = "create" /\ \E r \in TxView(p) : r.userId = c.userId)
                  => c.result \in {"conflict", "error"}]_vars

\* addUser has answered 'User already exists' for a user whose record is
\* in the collection, and the record is as it was
C33_Conflict ==
  /\ lastApi.op = "addUser" /\ lastApi.result = "conflict"
  /\ lastApi.before = { << "admin" >> }
  /\ \E r \in store : r.userId = lastApi.userId /\ r.roles = << "admin" >>

\* ---------------------------------------------------------------------
\* Migration of the directory group

\* roles handed to migrateUsersFromAzureGroup: its default, and the default
\* of POST /users/migrate
MigrationRoles == { << "admin" >>, << "form-creator" >> }

\* findExistingUser: get(userId) without a session, null for notFound
findExistingUser(coll, userId, fault) ==
  IF fault THEN "error"
  ELSE IF \E r \in coll : r.userId = userId THEN "found"
  ELSE "null"

\* results.successful.push / results.failed.push / results.skipped.push
push(results, list, entry) ==
  [results EXCEPT ![list] = Append(@, entry)]

\* finaliseMigrationResult: the summary counts the lists
finaliseMigrationResult(azureUsers, results) ==
  [total |-> Len(azureUsers),
   successful |-> Len(results.successful),
   failed |-> Len(results.failed),
   skipped |-> Len(results.skipped)]

\* migrateUsersFromAzureGroup(roles) up to the start of the transaction:
\* getGroupMembers, then createMigrationResults
migrateUsersFromAzureGroup(roles, fault) ==
  /\ migration.pc \in {"idle", "done"}
  /\ migration.no < MaxMigrations
  /\ migration' =
       IF fault
       THEN [NoMigration EXCEPT !.pc = "done", !.no = migration.no + 1,
                                !.roles = roles,
                                !.outcome = rethrow("DirectoryError")]
       ELSE [NoMigration EXCEPT
               !.pc = IF Len(directory) = 0 THEN "commit"
                      ELSE "processMigrationUser",
               !.no = migration.no + 1, !.roles = roles,
               !.azureUsers = directory, !.attempts = 1]
  /\ UNCHANGED << plugin, request, ticks >>
  /\ UNCHANGED << serviceVars, schedVars, scopeVars, apiVars >>

\* one iteration of the loop in the callback of processAllMigrationUsers:
\* processMigrationUser and the catch around it
processMigrationUser(fault) ==
  /\ migration.pc = "processMigrationUser"
  /\ LET azureUser == migration.azureUsers[migration.idx]
         existingUser == findExistingUser(store, azureUser.id, fault = "find")
         document == createUserInternal(azureUser.id, migration.roles,
                                        azureUser.email, azureUser.displayName)
         created == IF existingUser = "null"
                    THEN create(store \cup migration.writes, document,
                                fault = "create")
                    ELSE "none"
         list == IF existingUser = "found" THEN "skipped"
                 ELSE IF created = "ok" THEN "successful"
                 ELSE "failed"
         entry == [userId |-> azureUser.id,
                   note |-> IF list = "skipped" THEN "User already exists"
                            ELSE IF list = "successful" THEN "migrated"
                            ELSE "error"]
     IN  migration' =
           [migration EXCEPT
              !.results = push(@, list, entry),
              !.writes = IF created = "ok" THEN @ \cup {document} ELSE @,
              !.idx = @ + 1,
              !.pc = IF migration.idx + 1 > Len(migration.azureUsers)
                     THEN "commit" ELSE "processMigrationUser"]
  /\ UNCHANGED << plugin, request, ticks >>
  /\ UNCHANGED << serviceVars, schedVars, scopeVars, apiVars >>

\* the end of session.withTransaction in processAllMigrationUsers: the
\* commit goes through, or it fails for good and the error leaves
\* migrateUsersFromAzureGroup, or it ends in a transient error and
\* withTransaction runs the callback again, with the results object that
\* was created outside the callback
processAllMigrationUsers(end) ==
  /\ migration.pc = "commit"
  /\ end = "retry" => migration.attempts < MaxAttempts
  /\ migration' =
       IF end = "commit"
       THEN [migration EXCEPT
               !.pc = "done", !.writes = {},
               !.outcome = Returned("completed"),
               !.summary = finaliseMigrationResult(migration.azureUsers,
                                                   migration.results)]
       ELSE IF end = "retry"
       THEN [migration EXCEPT
               !.pc = IF Len(migration.azureUsers) = 0 THEN "commit"
                      ELSE "processMigrationUser",
               !.writes = {}, !.idx = 1, !.attempts = @ + 1]
       ELSE [migration EXCEPT
               !.pc = "done", !.writes = {},
               !.outcome = rethrow("TransactionError")]
  /\ store' = IF end = "commit" THEN store \cup migration.writes ELSE store
  /\ UNCHANGED << now, directory, pc, runNo, lockVars, syncVars, histVars >>
  /\ UNCHANGED << plugin, request, ticks >>
  /\ UNCHANGED << schedVars, scopeVars, apiVars >>

MigrationNext ==
  \/ \E roles \in MigrationRoles, fault \in BOOLEAN :
       migrateUsersFromAzureGroup(roles, fault)
  \/ \E fault \in {"none", "find", "create"} : processMigrationUser(fault)
  \/ \E end \in {"commit", "retry", "fail"} : processAllMigrationUsers(end)

SpecMigration == Init /\ [][MigrationNext]_vars

\* the entries of the three lists for one user
EntriesFor(userId) ==
  LET in(list) == { k \in 1..Len(migration.results[list]) :
                      migration.results[list][k].userId = userId }
  IN  Cardinality(in("successful")) + Cardinality(in("failed"))
        + Cardinality(in("skipped"))

\* C34: in the result of every completed migrateUsersFromAzureGroup run
\* each user of the directory group is in exactly one of the lists
\* successful, failed and skipped, a successful user has the record the run
\* created and a skipped user has a record, and successful + failed +
\* skipped = total = the number of users of the group.
C34_ResultPartition ==
  (migration.pc = "done" /\ migration.outcome = Returned("completed")) =>
    /\ \A i \in 1..Len(migration.azureUsers) :
         EntriesFor(migration.azureUsers[i].id) = 1
    /\ \A k \in 1..Len(migration.results.successful) :
         \E r \in store :
           /\ r.userId = migration.results.successful[k].userId
           /\ r.roles = migration.roles
    /\ \A k \in 1..Len(migration.results.skipped) :
         \E r \in store : r.userId = migration.results.skipped[k].userId
    /\ migration.summary.total = Len(migration.azureUsers)
    /\ migration.summary.successful + migration.summary.failed
         + migration.summary.skipped = migration.summary.total

\* the events a call of the API can publish
Events ==
  { "publishEntitlementCreatedEvent", "publishEntitlementUpdatedEvent",
    "publishEntitlementDeletedEvent" }

\* C39: addUser, updateUser and deleteUser publish their event only after
\* their transaction has completed successfully: the publish is the last
\* await of a call, it follows session.withTransaction, it is the event of
\* that call, and the call's write is in the collection by then; a call
\* whose lookup or transaction failed publishes nothing and leaves the
\* collection as it was.
C39_EventAfterCommit ==
  [][apiNo' # apiNo =>
       LET t == lastApi'.trace
           published == { k \in 1..Len(t) : t[k] \in Events }
       IN  /\ \A k \in published :
                /\ k = Len(t) /\ k > 1 /\ t[k - 1] = "withTransaction"
                /\ t[k] = publish(lastApi'.op)
                /\ lastApi'.result = "ok"
                /\ IF lastApi'.op = "deleteUser"
                   THEN ~ \E r \in store' : r.userId = lastApi'.userId
                   ELSE \E r \in store' : r.userId = lastApi'.userId
           /\ lastApi'.result # "ok" =>
                (published = {} /\ store' = store)
           /\ lastApi'.result = "ok" => published # {}]_vars

\* a failed call has published nothing: addUser met a record that was in
\* the collection and stopped at the transaction
C39_NoEventOnFailure ==
  /\ apiNo >= 2
  /\ lastApi.op = "addUser" /\ lastApi.result = "conflict"
  /\ lastApi.trace = << "getUserByEmail", "withTransaction" >>
  /\ \E r \in store : r.userId = lastApi.userId


====
